---------------------------- MODULE Spec2Model ----------------------------
(***************************************************************************)
(* Family tree layout engine (frontend/src/utils/layoutEngine.ts).         *)
(*                                                                         *)
(* computeLayout(focusedPersonId, familyTree) is modelled as a state       *)
(* machine: the person graph and the focused id are drawn by Call, the     *)
(* recursion of positionDescendants runs on an explicit call stack, the    *)
(* tail recursion of positionAncestors on its current arguments, and the   *)
(* pure helpers (calculateNodeWidth, calculateSubtreeWidth, findParents,   *)
(* getSpouse, positionCouple) are operators.                               *)
(*                                                                         *)
(* A person id is a positive integer, Null (0) stands for null/undefined,  *)
(* and Object.values(people) lists the persons by ascending id.  Every     *)
(* node width is even (name.length * 8 + 60 clamped to [140, 220]), so     *)
(* every division by two of the source is exact in the integers.           *)
(***************************************************************************)
EXTENDS Integers, Sequences, FiniteSets, TLC

VARIABLES people, focusedPersonId, nodes, connections, positioned,
          stack, anc, pc, result,
          history, historyIndex, now,
          tree, uuid,
          trees, requests,
          log

\* The state of useNavigation besides the focus (React state history and
\* historyIndex, the clock read by Date.now()).
navVars == <<history, historyIndex, now>>

\* The FamilyTree document of the graph store and the uuid generator.
storeVars == <<tree, uuid>>

\* The stored trees and the createTree requests in flight.
tierVars == <<trees, requests>>

\* What a call of computeLayout does not touch: everything outside it, the
\* results its caller keeps (log) included.
outside == <<navVars, storeVars, tierVars, log>>



vars == <<people, focusedPersonId, nodes, connections, positioned,
          stack, anc, pc, result, outside>>

(***************************************************************************)
(* CONFIG                                                                  *)
(***************************************************************************)
MIN_NODE_WIDTH == 140
MAX_NODE_WIDTH == 220
NODE_HEIGHT == 90
CHAR_WIDTH == 8
PADDING == 60
HORIZONTAL_GAP == 60
VERTICAL_GAP == 130
SPOUSE_GAP == 20
MAX_LAYERS_UP == 4
MAX_LAYERS_DOWN == 4

Null == 0

SetMin(S) == CHOOSE a \in S : \A b \in S : a <= b
SetMax(S) == CHOOSE a \in S : \A b \in S : a >= b
Max(a, b) == IF a >= b THEN a ELSE b
Min(a, b) == IF a <= b THEN a ELSE b
Half(n) == n \div 2

(***************************************************************************)
(* Pure helpers                                                            *)
(***************************************************************************)
\* Mutant of calculateNodeWidth: the upper clamp is missing.
calculateNodeWidthUnclamped(name) ==
    Max(MIN_NODE_WIDTH, Len(name) * CHAR_WIDTH + PADDING)

calculateNodeWidth(name) ==
    LET textWidth == Len(name) * CHAR_WIDTH + PADDING
    IN  Max(MIN_NODE_WIDTH, Min(MAX_NODE_WIDTH, textWidth))

\* The spouse's id, or Null when spouseId is unset or names nobody.
getSpouse(person) ==
    IF people[person].spouseId # Null /\ people[person].spouseId \in DOMAIN people
    THEN people[person].spouseId
    ELSE Null

\* Mutant of calculateCoupleWidth: a spouseId counts as a spouse even when
\* it names nobody.
calculateCoupleWidthRaw(person, spouse) ==
    LET personWidth == calculateNodeWidth(people[person].name)
    IN  IF spouse # Null
        THEN personWidth + calculateNodeWidth(people[spouse].name) + SPOUSE_GAP
        ELSE IF people[person].spouseId # Null
             THEN personWidth + MIN_NODE_WIDTH + SPOUSE_GAP
             ELSE personWidth

\* Mutant of calculateCoupleWidth: the gap between the spouses is not
\* counted.
calculateCoupleWidthNoGap(person, spouse) ==
    LET personWidth == calculateNodeWidth(people[person].name)
    IN  IF spouse # Null
        THEN personWidth + calculateNodeWidth(people[spouse].name)
        ELSE personWidth

calculateCoupleWidth(person, spouse) ==
    LET personWidth == calculateNodeWidth(people[person].name)
    IN  IF spouse # Null
        THEN personWidth + calculateNodeWidth(people[spouse].name) + SPOUSE_GAP
        ELSE personWidth

Includes(seq, x) == \E i \in 1..Len(seq) : seq[i] = x

\* The elements of S in ascending order.
Ascending(S) ==
    [i \in 1..Cardinality(S) |->
        CHOOSE a \in S : Cardinality({b \in S : b < a}) = i - 1]

\* Object.values(people): the persons in key order.
PeopleValues == Ascending(DOMAIN people)

\* Mutant of findParentsFrom: the test that skips a found parent's spouse
\* is inverted.
RECURSIVE findParentsFromInverted(_, _, _, _)
findParentsFromInverted(personId, values, i, parents) ==
    IF i > Len(values) THEN parents
    ELSE LET person == values[i]
             add == /\ Includes(people[person].childrenIds, personId)
                    /\ \E k \in 1..Len(parents) :
                         people[parents[k]].spouseId = person
         IN  findParentsFromInverted(personId, values, i + 1,
                             IF add THEN Append(parents, person) ELSE parents)

\* The loop of findParents over values, from its i-th element on.
\* (The list after the step is bound as the element of a singleton set, which
\* makes it a value computed once; so are the locals of the actions below.)
RECURSIVE findParentsFrom(_, _, _, _)
findParentsFrom(personId, values, i, parents) ==
    IF i > Len(values) THEN parents
    ELSE LET person == values[i]
             add == /\ Includes(people[person].childrenIds, personId)
                    /\ ~ \E k \in 1..Len(parents) :
                           people[parents[k]].spouseId = person
         IN  CHOOSE r \in { findParentsFrom(personId, values, i + 1, next) :
                            next \in {IF add THEN Append(parents, person)
                                      ELSE parents} } : TRUE

findParents(personId) ==
    CHOOSE r \in { findParentsFrom(personId, values, 1, <<>>) :
                   values \in {PeopleValues} } : TRUE

RECURSIVE SumFirst(_, _)
SumFirst(s, n) == IF n = 0 THEN 0 ELSE SumFirst(s, n - 1) + s[n]

SumSeq(s) == SumFirst(s, Len(s))

RECURSIVE FilterSeq(_, _)
FilterSeq(s, S) ==
    IF s = <<>> THEN <<>>
    ELSE IF s[1] \in S THEN <<s[1]>> \o FilterSeq(Tail(s), S)
         ELSE FilterSeq(Tail(s), S)

\* Mutant of calculateSubtreeWidth: the width of the children's row is
\* returned without the couple width as its floor.
RECURSIVE calculateSubtreeWidthUnfloored(_, _, _, _)
calculateSubtreeWidthUnfloored(personId, maxDepth, currentDepth, visited) ==
    IF currentDepth > maxDepth THEN 0
    ELSE IF personId \in visited THEN 0
    ELSE IF personId \notin DOMAIN people THEN 0
    ELSE
      LET spouse == getSpouse(personId)
          visited1 == visited \cup {personId}
                        \cup (IF spouse # Null THEN {spouse} ELSE {})
          coupleWidth == calculateCoupleWidth(personId, spouse)
          childrenIds == people[personId].childrenIds
          validChildren == FilterSeq(childrenIds, DOMAIN people \ visited1)
          childWidths ==
              [i \in 1..Len(validChildren) |->
                  calculateSubtreeWidthUnfloored(validChildren[i], maxDepth,
                                                 currentDepth + 1, visited1)]
      IN  IF Len(childrenIds) = 0 \/ currentDepth >= maxDepth
          THEN coupleWidth
          ELSE IF validChildren = <<>> THEN 0
               ELSE SumFirst(childWidths, Len(validChildren))
                      + (Len(validChildren) - 1) * HORIZONTAL_GAP

RECURSIVE calculateSubtreeWidth(_, _, _, _)
calculateSubtreeWidth(personId, maxDepth, currentDepth, visited) ==
    IF currentDepth > maxDepth THEN 0
    ELSE IF personId \in visited THEN 0
    ELSE IF personId \notin DOMAIN people THEN 0
    ELSE
      LET spouse == getSpouse(personId)
          visited1 == visited \cup {personId}
                        \cup (IF spouse # Null THEN {spouse} ELSE {})
          coupleWidth == calculateCoupleWidth(personId, spouse)
          childrenIds == people[personId].childrenIds
          validChildren == FilterSeq(childrenIds, DOMAIN people \ visited1)
          childWidths ==
              [i \in 1..Len(validChildren) |->
                  calculateSubtreeWidth(validChildren[i], maxDepth,
                                        currentDepth + 1, visited1)]
          childrenWidth ==
              IF validChildren = <<>> THEN 0
              ELSE SumFirst(childWidths, Len(validChildren))
                     + (Len(validChildren) - 1) * HORIZONTAL_GAP
      IN  IF Len(childrenIds) = 0 \/ currentDepth >= maxDepth
          THEN coupleWidth
          ELSE CHOOSE w \in { Max(coupleWidth, cw) : cw \in {childrenWidth} } :
                 TRUE

(***************************************************************************)
(* Placement                                                               *)
(***************************************************************************)
\* Mutant of createNode: the flags isChild and isParent are exchanged.
createNodeExchanged(person, x, y, generation, context) ==
    [ id         |-> person,
      x          |-> x,
      y          |-> y,
      width      |-> calculateNodeWidth(people[person].name),
      height     |-> NODE_HEIGHT,
      isSpouse   |-> context.isSpouse,
      isChild    |-> context.isParent,
      isParent   |-> context.isChild,
      isFocused  |-> (person = focusedPersonId),
      generation |-> generation ]

createNode(person, x, y, generation, context) ==
    [ id         |-> person,
      x          |-> x,
      y          |-> y,
      width      |-> calculateNodeWidth(people[person].name),
      height     |-> NODE_HEIGHT,
      isSpouse   |-> context.isSpouse,
      isChild    |-> context.isChild,
      isParent   |-> context.isParent,
      isFocused  |-> (person = focusedPersonId),
      generation |-> generation ]

\* Mutant of maleOnLeft: the test is inverted.
maleOnRight(person) == people[person].gender # "male"

\* const maleOnLeft = person.gender === 'male';
maleOnLeft(person) == people[person].gender = "male"

\* Mutant of leftX: the left edge of the couple instead of the centre of
\* its left node.
leftXEdge(centerX, totalWidth, leftWidth) == centerX - Half(totalWidth)

leftX(centerX, totalWidth, leftWidth) ==
    centerX - Half(totalWidth) + Half(leftWidth)

\* Mutant of rightX: the right edge of the couple instead of the centre of
\* its right node.
rightXEdge(centerX, totalWidth, rightWidth) == centerX + Half(totalWidth)

rightX(centerX, totalWidth, rightWidth) ==
    centerX + Half(totalWidth) - Half(rightWidth)

\* Mutant of placeNode: the positioned check is dropped.
placeNodeAlways(st, person, x, y, generation, context) ==
    [st EXCEPT
       !.nodes = Append(st.nodes,
                        createNode(person, x, y, generation, context)),
       !.positioned = st.positioned \cup {person}]

\* st = [nodes, connections, positioned] is the layout built so far.
\* if (!positioned.has(p.id)) { nodes.push(createNode(p, ...)); positioned.add(p.id) }
placeNode(st, person, x, y, generation, context) ==
    IF person \notin st.positioned
    THEN [st EXCEPT
            !.nodes = Append(st.nodes,
                             createNode(person, x, y, generation, context)),
            !.positioned = st.positioned \cup {person}]
    ELSE st

\* positionCouple, the branch of a spouse that is not positioned yet.
positionPair(person, spouse, centerX, centerY, generation, context, st) ==
    LET personWidth == calculateNodeWidth(people[person].name)
        spouseWidth == calculateNodeWidth(people[spouse].name)
        totalWidth == personWidth + spouseWidth + SPOUSE_GAP
        leftPerson == IF maleOnLeft(person) THEN person ELSE spouse
        rightPerson == IF maleOnLeft(person) THEN spouse ELSE person
        leftWidth == calculateNodeWidth(people[leftPerson].name)
        rightWidth == calculateNodeWidth(people[rightPerson].name)
        lx == leftX(centerX, totalWidth, leftWidth)
        rx == rightX(centerX, totalWidth, rightWidth)
        st1 == placeNode(st, leftPerson, lx, centerY, generation,
                 [isSpouse |-> leftPerson # focusedPersonId,
                  isChild  |-> context.isChild,
                  isParent |-> context.isParent])
        st2 == placeNode(st1, rightPerson, rx, centerY, generation,
                 [isSpouse |-> rightPerson # focusedPersonId,
                  isChild  |-> context.isChild,
                  isParent |-> context.isParent])
    IN  [ nodes       |-> st2.nodes,
          positioned  |-> st2.positioned,
          connections |-> Append(st.connections,
             [ id     |-> <<"spouse", leftPerson, rightPerson>>,
               type   |-> "spouse",
               from   |-> [x |-> lx + Half(leftWidth), y |-> centerY],
               to     |-> [x |-> rx - Half(rightWidth), y |-> centerY],
               fromId |-> leftPerson,
               toId   |-> rightPerson ]),
          leftX   |-> lx - Half(leftWidth),
          rightX  |-> rx + Half(rightWidth),
          centerX |-> centerX ]

\* Mutant of positionSingle: the node is put at the returned left extent.
positionSingleLeft(person, centerX, centerY, generation, context, st) ==
    LET personWidth == calculateNodeWidth(people[person].name)
        st1 == placeNode(st, person, centerX - Half(personWidth), centerY,
                 generation,
                 [isSpouse |-> FALSE,
                  isChild  |-> context.isChild,
                  isParent |-> context.isParent])
    IN  [ nodes       |-> st1.nodes,
          positioned  |-> st1.positioned,
          connections |-> st.connections,
          leftX   |-> centerX - Half(personWidth),
          rightX  |-> centerX + Half(personWidth),
          centerX |-> centerX ]

\* positionCouple, the branch of a single person.
positionSingle(person, centerX, centerY, generation, context, st) ==
    LET personWidth == calculateNodeWidth(people[person].name)
        st1 == placeNode(st, person, centerX, centerY, generation,
                 [isSpouse |-> FALSE,
                  isChild  |-> context.isChild,
                  isParent |-> context.isParent])
    IN  [ nodes       |-> st1.nodes,
          positioned  |-> st1.positioned,
          connections |-> st.connections,
          leftX   |-> centerX - Half(personWidth),
          rightX  |-> centerX + Half(personWidth),
          centerX |-> centerX ]

\* The result carries the layout after the call and the returned extents.
positionCouple(person, centerX, centerY, generation, context, st) ==
    LET spouse == getSpouse(person)
    IN  IF spouse # Null /\ spouse \notin st.positioned
        THEN positionPair(person, spouse, centerX, centerY, generation,
                          context, st)
        ELSE positionSingle(person, centerX, centerY, generation, context, st)

\* nodes.find(n => n.person.id === id): the index of the first such node, 0 if none.
FindNode(ns, id) ==
    IF \E i \in 1..Len(ns) : ns[i].id = id
    THEN CHOOSE i \in 1..Len(ns) :
           ns[i].id = id /\ \A j \in 1..(i - 1) : ns[j].id # id
    ELSE 0


(***************************************************************************)
(* Inputs: the person graphs and focused ids computeLayout is called on.   *)
(*                                                                         *)
(* SparseGraphs: every graph on the persons SmallIds with at most MaxLinks *)
(*   relationship entries, well formed or not (asymmetric spouse links,    *)
(*   cycles and self loops in childrenIds, several parents), and the same  *)
(*   graphs with the last person missing, which leaves dangling ids.       *)
(* TreeGraphs: every family of TreeSize blood relatives descending from    *)
(*   one ancestor, with spouses married in.                                *)
(* ChainGraphs: lineages of up to MaxChain generations, longer than        *)
(*   MAX_LAYERS_UP and MAX_LAYERS_DOWN, optionally closed into a cycle.    *)
(* NameGraphs: one person under each name of NameSamples, whose lengths    *)
(*   lie below, at and above the two clamps of calculateNodeWidth.         *)
(* ClaimedGraphs: two siblings of whom one names the other as its spouse,  *)
(*   the other naming a fourth person, the first or nobody.                *)
(* A spouseId never names the person itself (Person.spouseId refers to     *)
(* another person) and a childrenIds list holds no id twice.               *)
(***************************************************************************)
MaxLinks == 3
TreeSize == 5
MaxChain == 6

SmallIds == 1..3

Names == <<"A", "Charlotte Evans", "Maximilian Alexander Habsburg">>

NameOf(id) == Names[(id % 3) + 1]

Person(id, gender, spouseId, childrenIds) ==
    [id |-> id, name |-> NameOf(id), gender |-> gender,
     spouseId |-> spouseId, childrenIds |-> childrenIds]

Other(gender) == IF gender = "male" THEN "female" ELSE "male"

NoPeople == [id \in {} |-> Null]

\* The sequences over S without repetition, of length at most n.
DistinctSeqs(S, n) ==
    {q \in UNION {[1..k -> S] : k \in 0..n} :
        \A i, j \in 1..Len(q) : i # j => q[i] # q[j]}

SparseGraphs ==
    LET Ids == SmallIds
        Rel == [spouseId : {Null} \cup Ids, childrenIds : DistinctSeqs(Ids, 2)]
        Links(r) == SumSeq([id \in Ids |->
                       Len(r[id].childrenIds)
                         + (IF r[id].spouseId # Null THEN 1 ELSE 0)])
        Rels == {r \in [Ids -> Rel] :
                   /\ \A id \in Ids : r[id].spouseId # id
                   /\ Links(r) <= MaxLinks}
        Gender(id, first) == IF id % 2 = 1 THEN first ELSE Other(first)
    IN  { [id \in keys |->
             Person(id, Gender(id, first), r[id].spouseId, r[id].childrenIds)]
          : r \in Rels, first \in {"male", "female"},
            keys \in {Ids, Ids \ {SetMax(Ids)}} }

\* The shapes of a family of n blood relatives: person 1 is the common
\* ancestor, parent[i] < i is the blood parent of person i.
TreeShapes(n) ==
    {parent \in [1..n -> 0..(n - 1)] :
        /\ parent[1] = 0
        /\ \A i \in 2..n : 1 <= parent[i] /\ parent[i] < i}

\* The family of shape `parent`: the blood relatives in `married` have a
\* spouse; the spouse lists the couple's children too when `shared`; the
\* spouses come before the blood relatives in the record when `spousesFirst`.
Family(n, parent, married, shared, spousesFirst, gender) ==
    LET P(i) == IF spousesFirst THEN n + i ELSE i
        S(i) == IF spousesFirst THEN i ELSE n + i
        Kids(i) == LET js == Ascending({j \in 1..n : parent[j] = i})
                   IN  [k \in 1..Len(js) |-> P(js[k])]
        keys == {P(i) : i \in 1..n} \cup {S(i) : i \in married}
        Blood(k) == CHOOSE i \in 1..n : k \in {P(i), S(i)}
    IN  [k \in keys |->
           LET i == Blood(k)
           IN  IF k = P(i)
               THEN Person(k, gender,
                           IF i \in married THEN S(i) ELSE Null, Kids(i))
               ELSE Person(k, Other(gender), P(i),
                           IF shared THEN Kids(i) ELSE <<>>)]

HasChildren(n, parent) == {i \in 1..n : \E j \in 1..n : parent[j] = i}

\* Who is married: nobody, everybody, the persons with children, or the
\* persons without.
Married(n, parent, pattern) ==
    CASE pattern = "none"     -> {}
      [] pattern = "all"      -> 1..n
      [] pattern = "parents"  -> HasChildren(n, parent)
      [] pattern = "leaves"   -> (1..n) \ HasChildren(n, parent)

TreeGraphs ==
    { Family(TreeSize, parent, Married(TreeSize, parent, pattern), shared,
             spousesFirst, "male")
      : parent \in TreeShapes(TreeSize),
        pattern \in {"none", "all", "parents", "leaves"},
        shared \in BOOLEAN, spousesFirst \in BOOLEAN }

ChainGraphs ==
    LET Chain(n) == [i \in 1..n |-> i - 1]
        Close(g, n) == [g EXCEPT ![n].childrenIds = <<1>>]
        Open(n, pattern) ==
            Family(n, Chain(n), Married(n, Chain(n), pattern), TRUE, FALSE,
                   "male")
    IN  UNION { {Open(n, pattern), Close(Open(n, pattern), n)}
                : n \in 1..MaxChain, pattern \in {"none", "all"} }

NameSamples ==
    {"", "A", "Elizabeth", "Montgomery", "Bartholomew", "Charlotte Evans",
     "Alexander Hamilton1", "Alexander Hamilton12",
     "Alexander Hamilton123", "Maximilian Alexander Habsburg"}

NameGraphs ==
    { [id \in {1} |-> [Person(1, gender, Null, <<>>) EXCEPT !.name = name]]
      : name \in NameSamples, gender \in {"male", "female"} }

\* A parent (1) of two children (2 and 3, in either order) of whom 2 names 3
\* as its spouse, while 3 names 4, 2 or nobody, and 4 names 3 or nobody; 3
\* has no child or one child (5).
ClaimedGraphs ==
    { [id \in 1..(4 + Len(kids3)) |->
         CASE id = 1 -> Person(1, "male", Null, kids)
           [] id = 2 -> Person(2, g2, 3, <<>>)
           [] id = 3 -> Person(3, g3, s3, kids3)
           [] id = 4 -> Person(4, Other(g3), s4, <<>>)
           [] id = 5 -> Person(5, "female", Null, <<>>)]
      : kids \in {<<2, 3>>, <<3, 2>>}, g2 \in {"male", "female"},
        g3 \in {"male", "female"}, s3 \in {Null, 2, 4}, s4 \in {Null, 3},
        kids3 \in {<<>>, <<5>>} }

Graphs ==
    SparseGraphs \cup TreeGraphs \cup ChainGraphs \cup NameGraphs
      \cup ClaimedGraphs

\* The persons of graph g reached from those of S by following childrenIds
\* k times or less.
RECURSIVE Descendants(_, _, _)
Descendants(g, S, k) ==
    IF k = 0 THEN S
    ELSE Descendants(g,
           S \cup {c \in DOMAIN g :
                     \E q \in S : Includes(g[q].childrenIds, c)},
           k - 1)

\* Some person of g is its own descendant.
HasChildCycle(g) ==
    \E q \in DOMAIN g :
      q \in Descendants(g, {c \in DOMAIN g : Includes(g[q].childrenIds, c)},
                        Cardinality(DOMAIN g))

\* Every person of the graph as the focus, and an id that the graphs
\* without their last person do not hold.
Inputs ==
    {<<NoPeople, 1>>}
      \cup UNION { {<<g, f>> : f \in DOMAIN g \cup {SetMax(SmallIds)}}
                   : g \in Graphs }

(***************************************************************************)
(* computeLayout as a state machine                                        *)
(***************************************************************************)
EmptyBounds ==
    [minX |-> 0, maxX |-> 0, minY |-> 0, maxY |-> 0, width |-> 0, height |-> 0]

\* Mutant of EmptyResult: a default-sized box instead of zero-sized bounds.
EmptyResultBoxed ==
    [nodes |-> <<>>, connections |-> <<>>,
     bounds |-> [EmptyBounds EXCEPT !.width = MIN_NODE_WIDTH,
                                    !.height = NODE_HEIGHT],
     focusedNode |-> <<>>]

\* The result returned for a focused id the graph does not hold.
\* focusedNode is <<>> for null and <<node>> otherwise.
EmptyResult ==
    [nodes |-> <<>>, connections |-> <<>>, bounds |-> EmptyBounds,
     focusedNode |-> <<>>]

\* result is <<>> until computeLayout returns, then <<the LayoutResult>>.
Returned == result[1]

NoAnc == [personId |-> Null, personCenterX |-> 0, personY |-> 0,
          generation |-> 0, depth |-> 0]

\* A call of positionDescendants that has not run its first statement yet.
DescCall(parentPerson, parentCenterX, parentY, generation, depth) ==
    [ parentPerson   |-> parentPerson,
      parentCenterX  |-> parentCenterX,
      parentY        |-> parentY,
      generation     |-> generation,
      depth          |-> depth,
      entered        |-> FALSE,
      children       |-> <<>>,
      adjustedWidths |-> <<>>,
      i              |-> 0,
      currentX       |-> 0 ]

Top == stack[Len(stack)]

\* Mutant of Return: the call never returns.
ReturnNever == stack

\* Return from the top call: the caller, if any, finishes its loop iteration
\* (currentX += childWidth + HORIZONTAL_GAP; i++).
Return ==
    LET rest == SubSeq(stack, 1, Len(stack) - 1)
        n == Len(rest)
    IN  IF n = 0 THEN rest
        ELSE [rest EXCEPT
                ![n].currentX = rest[n].currentX
                                  + rest[n].adjustedWidths[rest[n].i]
                                  + HORIZONTAL_GAP,
                ![n].i = rest[n].i + 1]

\* req.user of the tree requests: one user of each tier.
TierUsers ==
    { [id |-> 1, tier |-> "free"], [id |-> 2, tier |-> "silver"],
      [id |-> 3, tier |-> "gold"], [id |-> 4, tier |-> "admin"] }

\* The owners trees are counted for: trees[id] is
\* countDocuments({ ownerId: id }), requests[id] the createTree requests of
\* user id that await the answer of canCreateTree (checking) and that have
\* passed it and not saved yet (saving).
OwnerIds == {user.id : user \in TierUsers}

\* Nothing has been called yet.
LayoutIdle ==
    /\ people = NoPeople
    /\ nodes = <<>>
    /\ connections = <<>>
    /\ positioned = {}
    /\ stack = <<>>
    /\ anc = NoAnc
    /\ pc = "idle"
    /\ result = <<>>

\* No hook is mounted.
NavIdle == history = <<>> /\ historyIndex = -1 /\ now = 0

\* No tree document is loaded.
StoreIdle ==
    tree = [ownerId |-> Null, people |-> NoPeople, rootId |-> Null] /\ uuid = 0

\* No tree is stored and no request has arrived.
TierIdle ==
    /\ trees = [id \in OwnerIds |-> 0]
    /\ requests = [id \in OwnerIds |-> [checking |-> 0, saving |-> 0]]

Init ==
    /\ LayoutIdle
    /\ focusedPersonId = Null
    /\ NavIdle /\ StoreIdle /\ TierIdle
    /\ log = {}

\* computeLayout(focusedPersonId, familyTree) is called.
Call ==
    /\ pc = "idle"
    /\ \E input \in Inputs :
         /\ people' = input[1]
         /\ focusedPersonId' = input[2]
    /\ pc' = "start"
    /\ UNCHANGED outside
    /\ UNCHANGED <<nodes, connections, positioned, stack, anc, result>>

\* computeLayout, focused person missing: the empty result.
ReturnEmpty ==
    /\ pc = "start"
    /\ focusedPersonId \notin DOMAIN people
    /\ result' = <<EmptyResult>>
    /\ pc' = "done"
    /\ UNCHANGED outside
    /\ UNCHANGED <<people, focusedPersonId, nodes, connections, positioned,
                   stack, anc>>

\* Mutant of anchorX: the x of the person's own node.
anchorXNode(r, ownX) == ownX

\* The x handed to positionAncestors as personCenterX: result.centerX, the
\* centre of the couple positionCouple has just placed (ownX is the x of the
\* person's own node, which the code does not use here).
anchorX(r, ownX) == r.centerX

\* computeLayout: place the focused couple at the origin and call
\* positionDescendants(focusedPerson, result.centerX, 0, 0, 0).  anc holds
\* the arguments of the later positionAncestors(focusedPersonId,
\* result.centerX, 0, 0, 0).
PlaceFocused ==
    /\ pc = "start"
    /\ focusedPersonId \in DOMAIN people
    /\ \E r \in {positionCouple(focusedPersonId, 0, 0, 0,
                  [isChild |-> FALSE, isParent |-> FALSE],
                  [nodes |-> nodes, connections |-> connections,
                   positioned |-> positioned])} :
           /\ nodes' = r.nodes
           /\ connections' = r.connections
           /\ positioned' = r.positioned
           /\ stack' = <<DescCall(focusedPersonId, r.centerX, 0, 0, 0)>>
           /\ anc' = [personId |-> focusedPersonId,
                      personCenterX |->
                        anchorX(r, r.nodes[FindNode(r.nodes,
                                                    focusedPersonId)].x),
                      personY |-> 0,
                      generation |-> 0, depth |-> 0]
    /\ pc' = "descendants"
    /\ UNCHANGED outside
    /\ UNCHANGED <<people, focusedPersonId, result>>

\* The children of the parent that exist and are not positioned yet.
DescChildren(parentPerson) ==
    FilterSeq(people[parentPerson].childrenIds, DOMAIN people \ positioned)

\* Mutant of DescStop: off by one.
DescStopLate(depth) == depth > MAX_LAYERS_DOWN

\* if (depth >= CONFIG.MAX_LAYERS_DOWN) return;
DescStop(depth) == depth >= MAX_LAYERS_DOWN

\* if (depth >= CONFIG.MAX_LAYERS_UP) return;
AncStop(depth) == depth >= MAX_LAYERS_UP

\* positionDescendants: depth limit reached.
DescDepthLimit ==
    /\ pc = "descendants" /\ stack # <<>> /\ ~Top.entered
    /\ DescStop(Top.depth)
    /\ stack' = Return
    /\ UNCHANGED outside
    /\ UNCHANGED <<people, focusedPersonId, nodes, connections, positioned,
                   anc, pc, result>>

\* positionDescendants: no child left to place.
DescNoChildren ==
    /\ pc = "descendants" /\ stack # <<>> /\ ~Top.entered
    /\ ~DescStop(Top.depth)
    /\ DescChildren(Top.parentPerson) = <<>>
    /\ stack' = Return
    /\ UNCHANGED outside
    /\ UNCHANGED <<people, focusedPersonId, nodes, connections, positioned,
                   anc, pc, result>>

\* Mutant of AdjustedWidths: no room is reserved for the descendants.
AdjustedWidthsCoupleOnly(children, depth) ==
    [i \in 1..Len(children) |->
        calculateCoupleWidth(children[i], getSpouse(children[i]))]

\* The slice widths of the children: each child's subtree width, floored at
\* the child's own couple width.
AdjustedWidths(children, depth) ==
    [i \in 1..Len(children) |->
        Max(calculateSubtreeWidth(children[i], MAX_LAYERS_DOWN - depth - 1, 0,
                                  positioned),
            calculateCoupleWidth(children[i], getSpouse(children[i])))]

\* Mutant of totalWidth: the gaps between the slices are not counted.
totalWidthNoGaps(adjustedWidths) == SumSeq(adjustedWidths)

\* positionDescendants: the width of the children's row, the slices and the
\* gaps between them.
totalWidth(adjustedWidths) ==
    SumSeq(adjustedWidths) + (Len(adjustedWidths) - 1) * HORIZONTAL_GAP

\* positionDescendants: collect the children, reserve their slices.
DescEnter ==
    /\ pc = "descendants" /\ stack # <<>> /\ ~Top.entered
    /\ ~DescStop(Top.depth)
    /\ DescChildren(Top.parentPerson) # <<>>
    /\ \E children \in {DescChildren(Top.parentPerson)} :
       \E adjustedWidths \in {AdjustedWidths(children, Top.depth)} :
       \E total \in {totalWidth(adjustedWidths)} :
           stack' = [stack EXCEPT
                       ![Len(stack)].entered = TRUE,
                       ![Len(stack)].children = children,
                       ![Len(stack)].adjustedWidths = adjustedWidths,
                       ![Len(stack)].i = 1,
                       ![Len(stack)].currentX =
                           Top.parentCenterX - Half(total)]
    /\ UNCHANGED outside
    /\ UNCHANGED <<people, focusedPersonId, nodes, connections, positioned,
                   anc, pc, result>>

\* Mutant of childConnectionFrom: the connection starts below the parent's
\* own node.
childConnectionFromNode(f, ns) ==
    [x |-> ns[FindNode(ns, f.parentPerson)].x,
     y |-> f.parentY + Half(NODE_HEIGHT)]

\* positionDescendants: the start point of the connection to a child, below
\* the centre the call was given for the parent.
childConnectionFrom(f, ns) ==
    [x |-> f.parentCenterX, y |-> f.parentY + Half(NODE_HEIGHT)]

\* positionDescendants, one loop iteration up to the recursive call: place
\* the child's couple, connect it to the parent, descend into the child.
DescChild ==
    /\ pc = "descendants" /\ stack # <<>> /\ Top.entered
    /\ Top.i <= Len(Top.children)
    /\ \E f \in {Top} :
       \E child \in {f.children[f.i]} :
       \E childWidth \in {f.adjustedWidths[f.i]} :
       \E childY \in {f.parentY + VERTICAL_GAP + NODE_HEIGHT} :
       \E childCenterX \in {f.currentX + Half(childWidth)} :
       \E r \in {positionCouple(child, childCenterX, childY, f.generation + 1,
                  [isChild |-> TRUE, isParent |-> FALSE],
                  [nodes |-> nodes, connections |-> connections,
                   positioned |-> positioned])} :
       \E childNode \in {FindNode(r.nodes, child)} :
           /\ nodes' = r.nodes
           /\ positioned' = r.positioned
           /\ connections' =
                IF childNode # 0
                THEN Append(r.connections,
                       [ id     |-> <<"parent-child", f.parentPerson, child>>,
                         type   |-> "parent-child",
                         from   |-> childConnectionFrom(f, r.nodes),
                         to     |-> [x |-> r.nodes[childNode].x,
                                     y |-> childY - Half(NODE_HEIGHT)],
                         fromId |-> f.parentPerson,
                         toId   |-> child ])
                ELSE r.connections
           /\ stack' = Append(stack,
                         DescCall(child, r.centerX, childY, f.generation + 1,
                                  f.depth + 1))
    /\ UNCHANGED outside
    /\ UNCHANGED <<people, focusedPersonId, anc, pc, result>>

\* positionDescendants: the loop is over.
DescReturn ==
    /\ pc = "descendants" /\ stack # <<>> /\ Top.entered
    /\ Top.i > Len(Top.children)
    /\ stack' = Return
    /\ UNCHANGED outside
    /\ UNCHANGED <<people, focusedPersonId, nodes, connections, positioned,
                   anc, pc, result>>

\* computeLayout: positionDescendants has returned, positionAncestors is
\* called.
CallAncestors ==
    /\ pc = "descendants" /\ stack = <<>>
    /\ pc' = "ancestors"
    /\ UNCHANGED outside
    /\ UNCHANGED <<people, focusedPersonId, nodes, connections, positioned,
                   stack, anc, result>>

AncParents == FilterSeq(findParents(anc.personId), DOMAIN people \ positioned)

\* positionAncestors: depth limit reached.
AncDepthLimit ==
    /\ pc = "ancestors"
    /\ AncStop(anc.depth)
    /\ pc' = "bounds"
    /\ UNCHANGED outside
    /\ UNCHANGED <<people, focusedPersonId, nodes, connections, positioned,
                   stack, anc, result>>

\* positionAncestors: no parent left to place.
AncNoParents ==
    /\ pc = "ancestors"
    /\ ~AncStop(anc.depth)
    /\ AncParents = <<>>
    /\ pc' = "bounds"
    /\ UNCHANGED outside
    /\ UNCHANGED <<people, focusedPersonId, nodes, connections, positioned,
                   stack, anc, result>>

\* Mutant of firstParent: the last parent found.
lastParent(parents) == parents[Len(parents)]

\* const parent = parents[0];
firstParent(parents) == parents[1]

\* positionAncestors: place the first parent's couple above the person,
\* connect it, and recurse from that parent.
AncPlace ==
    /\ pc = "ancestors"
    /\ ~AncStop(anc.depth)
    /\ \E parents \in {AncParents} :
       parents # <<>> /\
       \E parentY \in {anc.personY - VERTICAL_GAP - NODE_HEIGHT} :
       \E parent \in {firstParent(parents)} :
       \E r \in {positionCouple(parent, anc.personCenterX, parentY,
                  anc.generation - 1,
                  [isChild |-> FALSE, isParent |-> TRUE],
                  [nodes |-> nodes, connections |-> connections,
                   positioned |-> positioned])} :
       \E childNode \in {FindNode(r.nodes, anc.personId)} :
           /\ nodes' = r.nodes
           /\ positioned' = r.positioned
           /\ connections' =
                IF childNode # 0
                THEN Append(r.connections,
                       [ id     |-> <<"parent-child", parent, anc.personId>>,
                         type   |-> "parent-child",
                         from   |-> [x |-> r.centerX,
                                     y |-> parentY + Half(NODE_HEIGHT)],
                         to     |-> [x |-> r.nodes[childNode].x,
                                     y |-> anc.personY - Half(NODE_HEIGHT)],
                         fromId |-> parent,
                         toId   |-> anc.personId ])
                ELSE r.connections
           /\ anc' = [personId |-> parent,
                      personCenterX |->
                        anchorX(r, r.nodes[FindNode(r.nodes, parent)].x),
                      personY |-> parentY, generation |-> anc.generation - 1,
                      depth |-> anc.depth + 1]
    /\ UNCHANGED outside
    /\ UNCHANGED <<people, focusedPersonId, stack, pc, result>>

\* The bounding box of the nodes; the origin when there is none.
\* Mutant of ComputeBounds: the box around the node centres.
ComputeBoundsOfCentres(ns) ==
    IF ns = <<>> THEN EmptyBounds
    ELSE LET I == 1..Len(ns)
             minX == SetMin({ns[i].x : i \in I})
             maxX == SetMax({ns[i].x : i \in I})
             minY == SetMin({ns[i].y : i \in I})
             maxY == SetMax({ns[i].y : i \in I})
         IN  [minX |-> minX, maxX |-> maxX, minY |-> minY, maxY |-> maxY,
              width |-> maxX - minX, height |-> maxY - minY]

ComputeBounds(ns) ==
    IF ns = <<>> THEN EmptyBounds
    ELSE LET I == 1..Len(ns)
             minX == SetMin({ns[i].x - Half(ns[i].width) : i \in I})
             maxX == SetMax({ns[i].x + Half(ns[i].width) : i \in I})
             minY == SetMin({ns[i].y - Half(ns[i].height) : i \in I})
             maxY == SetMax({ns[i].y + Half(ns[i].height) : i \in I})
         IN  [minX |-> minX, maxX |-> maxX, minY |-> minY, maxY |-> maxY,
              width |-> maxX - minX, height |-> maxY - minY]

\* nodes.find(n => n.isFocused) || null
FocusedNode(ns) ==
    IF \E i \in 1..Len(ns) : ns[i].isFocused
    THEN <<ns[CHOOSE i \in 1..Len(ns) :
                ns[i].isFocused /\ \A j \in 1..(i - 1) : ~ns[j].isFocused]>>
    ELSE <<>>

\* computeLayout: bounds, focusedNode, return.
Finish ==
    /\ pc = "bounds"
    /\ result' = <<[nodes |-> nodes, connections |-> connections,
                    bounds |-> ComputeBounds(nodes),
                    focusedNode |-> FocusedNode(nodes)]>>
    /\ pc' = "done"
    /\ UNCHANGED outside
    /\ UNCHANGED <<people, focusedPersonId, nodes, connections, positioned,
                   stack, anc>>

Next ==
    \/ Call
    \/ ReturnEmpty
    \/ PlaceFocused
    \/ DescDepthLimit
    \/ DescNoChildren
    \/ DescEnter
    \/ DescChild
    \/ DescReturn
    \/ CallAncestors
    \/ AncDepthLimit
    \/ AncNoParents
    \/ AncPlace
    \/ Finish

Spec == Init /\ [][Next]_vars

\* A call of computeLayout is synchronous: once called it runs, nothing else
\* is scheduled until it returns.
FairSpec == Spec /\ WF_vars(Next)

(***************************************************************************)
(* Properties                                                              *)
(***************************************************************************)
Done == pc = "done"

LeftEdge(n) == n.x - Half(n.width)
RightEdge(n) == n.x + Half(n.width)

\* The nodes of person id among ns.
NodesOf(ns, id) == {i \in 1..Len(ns) : ns[i].id = id}

\* The connections of conns of a type.
ConnsOf(conns, type) == {i \in 1..Len(conns) : conns[i].type = type}

Overlap(a, b) ==
    a.y = b.y /\ LeftEdge(a) < RightEdge(b) /\ LeftEdge(b) < RightEdge(a)

NoOverlapIn(ns) ==
    \A i, j \in 1..Len(ns) : i < j => ~Overlap(ns[i], ns[j])

\* C1: no two distinct nodes of a layout that share the same y have
\* overlapping horizontal extents [x - width/2, x + width/2]; it holds of the
\* nodes placed so far at every step and of the returned nodes.
C1_NoOverlap ==
    /\ NoOverlapIn(nodes)
    /\ Done => NoOverlapIn(Returned.nodes)

\* Two cousins share a row: nodes of generation 2 or deeper placed under
\* different parents.
C1_Witness ==
    /\ Done
    /\ \E c, d \in ConnsOf(connections, "parent-child") :
         /\ connections[c].fromId # connections[d].fromId
         /\ connections[c].toId # connections[d].toId
         /\ \E i \in NodesOf(nodes, connections[c].toId),
               j \in NodesOf(nodes, connections[d].toId) :
              nodes[i].generation >= 2 /\ nodes[i].y = nodes[j].y

DistinctIds(ns) == \A i, j \in 1..Len(ns) : ns[i].id = ns[j].id => i = j

\* C2: each person id has at most one node; a step only appends nodes, for
\* ids that were not positioned, and leaves every earlier node and every
\* positioned id in place.
C2_PlacedOnce ==
    /\ [](/\ DistinctIds(nodes)
          /\ positioned = {nodes[i].id : i \in 1..Len(nodes)}
          /\ Done => DistinctIds(Returned.nodes))
    /\ [][/\ Len(nodes') >= Len(nodes)
          /\ \A i \in 1..Len(nodes) : nodes'[i] = nodes[i]
          /\ \A i \in (Len(nodes) + 1)..Len(nodes') :
               nodes'[i].id \notin positioned
          /\ positioned \subseteq positioned']_vars

\* A person reached on two paths, as the child of two placed parents, has
\* one node.
C2_Witness ==
    /\ Done
    /\ \E c, d \in ConnsOf(connections, "parent-child") :
         /\ connections[c].toId = connections[d].toId
         /\ connections[c].fromId # connections[d].fromId
         /\ Cardinality(NodesOf(Returned.nodes, connections[c].toId)) = 1

\* C4: every node has a generation g with -MAX_LAYERS_UP <= g <=
\* MAX_LAYERS_DOWN, that is -4 <= g <= 4.
C4_DepthBound ==
    /\ MAX_LAYERS_UP = 4 /\ MAX_LAYERS_DOWN = 4
    /\ \A i \in 1..Len(nodes) :
         -MAX_LAYERS_UP <= nodes[i].generation
           /\ nodes[i].generation <= MAX_LAYERS_DOWN
    /\ Done => \A i \in 1..Len(Returned.nodes) :
                 -4 <= Returned.nodes[i].generation
                   /\ Returned.nodes[i].generation <= 4

\* A limit cuts a lineage: a node of generation 4 has a child in the graph
\* that is not placed, or a node of generation -4 a parent.
C4_Witness ==
    /\ Done
    /\ \/ \E i \in 1..Len(nodes) :
            /\ nodes[i].generation = 4
            /\ \E c \in DOMAIN people \ positioned :
                 Includes(people[nodes[i].id].childrenIds, c)
       \/ \E i \in 1..Len(nodes) :
            /\ nodes[i].generation = -4
            /\ \E q \in DOMAIN people \ positioned :
                 Includes(people[q].childrenIds, nodes[i].id)

\* C6: when focusedPersonId is not a key of the graph, computeLayout returns
\* no nodes, no connections, bounds that are all 0 and focusedNode = null,
\* and places nothing on the way.
C6_MissingFocus ==
    focusedPersonId \notin DOMAIN people =>
      /\ pc \in {"idle", "start", "done"}
      /\ nodes = <<>> /\ connections = <<>>
      /\ Done =>
           result = << [nodes |-> <<>>, connections |-> <<>>,
                        bounds |-> [minX |-> 0, maxX |-> 0, minY |-> 0,
                                    maxY |-> 0, width |-> 0, height |-> 0],
                        focusedNode |-> <<>>] >>

\* computeLayout has returned for an id that a graph with persons lacks.
C6_Witness ==
    Done /\ focusedPersonId \notin DOMAIN people /\ DOMAIN people # {}

Abs(n) == IF n >= 0 THEN n ELSE -n

Mutual(a, b) ==
    /\ a \in DOMAIN people /\ b \in DOMAIN people
    /\ people[a].spouseId = b /\ people[b].spouseId = a

\* The spouse connections of conns that join a and b.
SpouseConns(conns, a, b) ==
    {i \in ConnsOf(conns, "spouse") :
        {conns[i].fromId, conns[i].toId} = {a, b}}

\* a and b have nodes side by side, joined by exactly one spouse connection.
SideBySide(ns, conns, a, b) ==
    /\ \E i \in NodesOf(ns, a), j \in NodesOf(ns, b) :
         /\ ns[i].y = ns[j].y
         /\ Abs(ns[i].x - ns[j].x)
              = Half(ns[i].width) + SPOUSE_GAP + Half(ns[j].width)
    /\ Cardinality(SpouseConns(conns, a, b)) = 1

\* No third person names a or b as its spouse.
NotClaimed(a, b) ==
    \A c \in DOMAIN people \ {a, b} : people[c].spouseId \notin {a, b}

\* C3 as stated: every person A with a node whose spouse link to B is mutual
\* has B placed next to it on the same row, |xA - xB| = widthA/2 +
\* SPOUSE_GAP + widthB/2, with exactly one spouse connection joining them.
C3_SpousesSideBySide ==
    Done =>
      \A i \in 1..Len(Returned.nodes) : \A b \in DOMAIN people :
        Mutual(Returned.nodes[i].id, b) =>
          SideBySide(Returned.nodes, Returned.connections,
                     Returned.nodes[i].id, b)

\* C3 amended: the same, for the couples that no third person names as
\* its spouse (as in every graph whose spouse links are all symmetric).
C3_UnclaimedSpousesSideBySide ==
    Done =>
      \A i \in 1..Len(Returned.nodes) : \A b \in DOMAIN people :
        Mutual(Returned.nodes[i].id, b) /\ NotClaimed(Returned.nodes[i].id, b)
          => SideBySide(Returned.nodes, Returned.connections,
                        Returned.nodes[i].id, b)

\* A mutual couple of different widths is placed below the focused row.
C3_Witness ==
    /\ Done
    /\ \E i, j \in 1..Len(nodes) :
         /\ Mutual(nodes[i].id, nodes[j].id)
         /\ NotClaimed(nodes[i].id, nodes[j].id)
         /\ nodes[i].generation > 0
         /\ nodes[i].width # nodes[j].width

\* Some person of the graph is its own descendant.
ChildCycle == HasChildCycle(people)

\* C5: computeLayout terminates on every graph, and on a graph with a cycle
\* in the child relation it places each person at most once.
C5_Terminates ==
    /\ <>Done
    /\ [](ChildCycle =>
            /\ DistinctIds(nodes)
            /\ Done => DistinctIds(Returned.nodes))

\* computeLayout has returned persons of a cycle of the child relation:
\* a placed person lists a placed ancestor of its own as its child.
C5_Witness ==
    /\ Done
    /\ \E i, j \in 1..Len(Returned.nodes) :
         /\ Returned.nodes[i].generation < Returned.nodes[j].generation
         /\ Includes(people[Returned.nodes[j].id].childrenIds,
                     Returned.nodes[i].id)
         /\ Returned.nodes[j].id
              \in Descendants(people, {Returned.nodes[i].id},
                              Cardinality(DOMAIN people))

Alone ==
    /\ focusedPersonId \in DOMAIN people
    /\ getSpouse(focusedPersonId) = Null
    /\ \A c \in DOMAIN people :
         ~Includes(people[focusedPersonId].childrenIds, c)
    /\ \A q \in DOMAIN people :
         ~Includes(people[q].childrenIds, focusedPersonId)

\* C8: for a focused person without resolvable spouse, without resolvable
\* children and listed in nobody's childrenIds, computeLayout returns exactly
\* one node (isFocused, generation 0, x = 0, y = 0) and no connection.
C8_SinglePerson ==
    Done /\ Alone =>
      /\ Len(Returned.nodes) = 1
      /\ Returned.nodes[1].id = focusedPersonId
      /\ Returned.nodes[1].isFocused
      /\ Returned.nodes[1].generation = 0
      /\ Returned.nodes[1].x = 0 /\ Returned.nodes[1].y = 0
      /\ Returned.connections = <<>>

\* The single person of a graph, and a person alone among others with
\* dangling references.
C8_Witness ==
    /\ Done /\ Alone
    /\ \/ Cardinality(DOMAIN people) = 1
       \/ /\ Cardinality(DOMAIN people) > 1
          /\ people[focusedPersonId].spouseId # Null
          /\ people[focusedPersonId].childrenIds # <<>>

\* The persons that list x as a child.
ParentsOf(x) == {q \in DOMAIN people : Includes(people[q].childrenIds, x)}

\* The first person, in the order of Object.values(people), that lists x as
\* a child.
FirstListed(x) == SetMin(ParentsOf(x))

\* The chain's parent: the parent of the focused person that has a parent.
ChainParent ==
    CHOOSE p \in ParentsOf(focusedPersonId) : ParentsOf(p) # {}

\* The chain's grandparent: the parent of the chain's parent that is not
\* listed as a child itself.
ChainGrandparent ==
    CHOOSE g \in ParentsOf(ChainParent) :
        ParentsOf(g) = {} /\ people[g].childrenIds = <<ChainParent>>

\* The graph is a chain grandparent -> parent -> focused child, each of the
\* three with a spouse (who may list the couple's children too), the focused
\* child has two children, and there is nobody and no link else.
ChainScenario ==
    /\ focusedPersonId \in DOMAIN people
    /\ Cardinality(DOMAIN people) = 8
    /\ \E p \in ParentsOf(focusedPersonId) : ParentsOf(p) # {}
    /\ \E g \in ParentsOf(ChainParent) :
         ParentsOf(g) = {} /\ people[g].childrenIds = <<ChainParent>>
    /\ LET f == focusedPersonId
           p == ChainParent
           g == ChainGrandparent
           fs == people[f].spouseId
           ps == people[p].spouseId
           gs == people[g].spouseId
           kids == {people[f].childrenIds[i] : i \in 1..Len(people[f].childrenIds)}
       IN  /\ Mutual(f, fs) /\ Mutual(p, ps) /\ Mutual(g, gs)
           /\ Len(people[f].childrenIds) = 2
           /\ DOMAIN people = {f, fs, p, ps, g, gs} \cup kids
           /\ people[p].childrenIds = <<f>>
           /\ people[fs].childrenIds \in {<<>>, people[f].childrenIds}
           /\ people[ps].childrenIds \in {<<>>, <<f>>}
           /\ people[gs].childrenIds \in {<<>>, <<p>>}
           /\ \A c \in kids :
                people[c].spouseId = Null /\ people[c].childrenIds = <<>>

\* The parent-child connections of conns that end at a node of generation
\* gen or above (up = FALSE), or at one of generation gen or below (up = TRUE).
ParentChildConns(ns, conns, up) ==
    {i \in ConnsOf(conns, "parent-child") :
        \E j \in NodesOf(ns, conns[i].toId) :
            IF up THEN ns[j].generation <= 0 ELSE ns[j].generation >= 1}

Generations(ns) == {ns[i].generation : i \in 1..Len(ns)}

\* C9 as stated: in the chain scenario the result has nodes at generations
\* -2, -1, 0 and +1, exactly 2 parent-child connections upward, 2 downward
\* and 2 spouse connections.
C9_ThreeGenerations ==
    Done /\ ChainScenario =>
      /\ Generations(Returned.nodes) = {-2, -1, 0, 1}
      /\ Cardinality(ParentChildConns(Returned.nodes, Returned.connections, TRUE)) = 2
      /\ Cardinality(ParentChildConns(Returned.nodes, Returned.connections, FALSE)) = 2
      /\ Cardinality(ConnsOf(Returned.connections, "spouse")) = 2

\* C9, amended: in the chain scenario the result has exactly 2 parent-child
\* connections downward; when the first person in key order that lists the
\* focused child is the chain's parent, it has nodes at generations -2, -1,
\* 0 and +1, exactly 2 parent-child connections upward and 3 spouse
\* connections (one per couple); when it is the parent's spouse, the
\* ancestors stop at generation -1, with 1 parent-child connection upward
\* and 2 spouse connections.
C9_ThreeGenerationsThreeCouples ==
    Done /\ ChainScenario =>
      LET ns == Returned.nodes
          conns == Returned.connections
      IN  /\ Cardinality(ParentChildConns(ns, conns, FALSE)) = 2
          /\ IF FirstListed(focusedPersonId) = ChainParent
             THEN /\ Generations(ns) = {-2, -1, 0, 1}
                  /\ Cardinality(ParentChildConns(ns, conns, TRUE)) = 2
                  /\ Cardinality(ConnsOf(conns, "spouse")) = 3
                  /\ Len(ns) = 8
             ELSE /\ Generations(ns) = {-1, 0, 1}
                  /\ Cardinality(ParentChildConns(ns, conns, TRUE)) = 1
                  /\ Cardinality(ConnsOf(conns, "spouse")) = 2
                  /\ Len(ns) = 6

\* The chain scenario has been laid out from the chain's parent upward: the
\* grandparents are in the result.
C9_Witness ==
    /\ Done /\ ChainScenario
    /\ FirstListed(focusedPersonId) = ChainParent
    /\ NodesOf(Returned.nodes, ChainGrandparent) # {}

\* name.length * CHAR_WIDTH + PADDING
TextWidth(name) == Len(name) * CHAR_WIDTH + PADDING

\* The width clamped the other way round: from above first.
Clamped(w) ==
    IF w > MAX_NODE_WIDTH THEN MAX_NODE_WIDTH
    ELSE IF w < MIN_NODE_WIDTH THEN MIN_NODE_WIDTH
    ELSE w

\* C10: calculateNodeWidth(name) is length(name) * CHAR_WIDTH + PADDING
\* clamped to [MIN_NODE_WIDTH, MAX_NODE_WIDTH]: a one-character name gives
\* MIN_NODE_WIDTH (140), a name whose computed width exceeds MAX_NODE_WIDTH
\* gives MAX_NODE_WIDTH (220), and every node's width is its person's
\* calculateNodeWidth and lies in [MIN_NODE_WIDTH, MAX_NODE_WIDTH].
C10_NodeWidthClamped ==
    /\ \A q \in DOMAIN people :
         LET name == people[q].name
         IN  /\ calculateNodeWidth(name)
                  = Min(MAX_NODE_WIDTH, Max(MIN_NODE_WIDTH, TextWidth(name)))
             /\ calculateNodeWidth(name) = Clamped(TextWidth(name))
             /\ Len(name) = 1 =>
                  calculateNodeWidth(name) = MIN_NODE_WIDTH
                    /\ MIN_NODE_WIDTH = 140
             /\ TextWidth(name) > MAX_NODE_WIDTH =>
                  calculateNodeWidth(name) = MAX_NODE_WIDTH
                    /\ MAX_NODE_WIDTH = 220
    /\ \A i \in 1..Len(nodes) :
         /\ nodes[i].width = Clamped(TextWidth(people[nodes[i].id].name))
         /\ MIN_NODE_WIDTH <= nodes[i].width
         /\ nodes[i].width <= MAX_NODE_WIDTH
    /\ Done => \A i \in 1..Len(Returned.nodes) :
         /\ MIN_NODE_WIDTH <= Returned.nodes[i].width
         /\ Returned.nodes[i].width <= MAX_NODE_WIDTH

\* A result holds a node widened to MIN_NODE_WIDTH, a node narrowed to
\* MAX_NODE_WIDTH and a node of the computed width in between.
C10_Witness ==
    /\ Done
    /\ \E i, j, k \in 1..Len(Returned.nodes) :
         LET w(n) == TextWidth(people[Returned.nodes[n].id].name)
         IN  /\ w(i) < MIN_NODE_WIDTH
             /\ Returned.nodes[i].width = MIN_NODE_WIDTH
             /\ w(j) > MAX_NODE_WIDTH
             /\ Returned.nodes[j].width = MAX_NODE_WIDTH
             /\ MIN_NODE_WIDTH < w(k) /\ w(k) < MAX_NODE_WIDTH
             /\ Returned.nodes[k].width = w(k)

\* The nodes of generation g among ns.
NodesAt(ns, g) == {i \in 1..Len(ns) : ns[i].generation = g}

\* The ids of the nodes appended by the step.
NewIds == {nodes'[i].id : i \in (Len(nodes) + 1)..Len(nodes')}

\* p is the first parent of child that is not positioned yet: p lists child,
\* p is not positioned, and every person before p in key order that lists
\* child is positioned or is the spouse of a person before it that lists
\* child.
IsFirstNewParent(p, child) ==
    /\ p \in DOMAIN people \ positioned
    /\ Includes(people[p].childrenIds, child)
    /\ \A q \in ParentsOf(child) :
         q < p => \/ q \in positioned
                  \/ \E r \in ParentsOf(child) :
                       r < q /\ people[r].spouseId = q

NodeOf(ns, id) == CHOOSE i \in 1..Len(ns) : ns[i].id = id

\* Twice the centre x of the nodes of generation g: leftmost edge plus
\* rightmost edge.
TwiceCentreAt(ns, g) ==
    SetMin({LeftEdge(ns[i]) : i \in NodesAt(ns, g)})
      + SetMax({RightEdge(ns[i]) : i \in NodesAt(ns, g)})

\* The parent-child connections of conns made by ancestor placement: they
\* start at a node of negative generation.
AncestorConns(ns, conns) ==
    {c \in ConnsOf(conns, "parent-child") :
        \E i \in NodesOf(ns, conns[c].fromId) : ns[i].generation < 0}

\* C12 as stated: at every ancestor step the placed parent couple is centred
\* above the x of the current person's own node: for every connection made
\* by ancestor placement, the centre x of the couple on the parent's row
\* equals the x of the node of the child.
C12_ParentsAboveNode ==
    Done =>
      \A c \in AncestorConns(Returned.nodes, Returned.connections) :
        LET ns == Returned.nodes
            parent == ns[NodeOf(ns, Returned.connections[c].fromId)]
            child == ns[NodeOf(ns, Returned.connections[c].toId)]
        IN  TwiceCentreAt(ns, parent.generation) = 2 * child.x

\* C12, amended: at every ancestor step the parent couple is centred above
\* the centre of the couple of the current person, which is the x of that
\* person's node only when it was placed alone: for every connection made by
\* ancestor placement the row of the parent and the row of the child have
\* the same centre x, the centre of the focused couple (0); the connection
\* starts at that centre and ends at the x of the child's own node.
C12_ParentsAboveCouple ==
    Done =>
      \A c \in AncestorConns(Returned.nodes, Returned.connections) :
        LET ns == Returned.nodes
            conn == Returned.connections[c]
            parent == ns[NodeOf(ns, conn.fromId)]
            child == ns[NodeOf(ns, conn.toId)]
        IN  /\ child.generation = parent.generation + 1
            /\ TwiceCentreAt(ns, parent.generation)
                 = TwiceCentreAt(ns, child.generation)
            /\ TwiceCentreAt(ns, parent.generation) = 0
            /\ conn.from.x = 0
            /\ conn.to.x = child.x

\* Two ancestor steps from persons placed with a spouse: the parents and the
\* grandparents are couples, and neither the focused person's node nor the
\* parent's node is at the centre of its couple.
C12_Witness ==
    /\ Done
    /\ \E c, d \in AncestorConns(Returned.nodes, Returned.connections) :
         LET ns == Returned.nodes
             conns == Returned.connections
         IN  /\ conns[c].toId = focusedPersonId
             /\ conns[d].toId = conns[c].fromId
             /\ ns[NodeOf(ns, conns[c].toId)].x # 0
             /\ ns[NodeOf(ns, conns[d].toId)].x # 0
             /\ Cardinality(NodesAt(ns, -2)) = 2

\* C13: whenever one call of positionCouple places a person together with
\* its spouse (the step adds both nodes), a male member has the smaller x and
\* a female member the larger x, whichever of the two was the primary
\* person; the spouse connection the step adds runs from the left member to
\* the right one.
C13_MaleLeft ==
    [][\A i, j \in (Len(nodes) + 1)..Len(nodes') :
         i # j =>
           /\ getSpouse(nodes'[i].id) = nodes'[j].id
                \/ getSpouse(nodes'[j].id) = nodes'[i].id
           /\ nodes'[i].y = nodes'[j].y
           /\ (/\ people'[nodes'[i].id].gender = "male"
               /\ people'[nodes'[j].id].gender = "female")
                => nodes'[i].x < nodes'[j].x
           /\ nodes'[i].x < nodes'[j].x =>
                /\ Len(connections') > Len(connections)
                /\ connections'[Len(connections) + 1].type = "spouse"
                /\ connections'[Len(connections) + 1].fromId = nodes'[i].id
                /\ connections'[Len(connections) + 1].toId = nodes'[j].id]_vars

\* A female focused person was passed as the primary person and her male
\* spouse stands on her left; and in the same result another couple of a
\* male and a female person stands male left.
C13_Witness ==
    /\ Done
    /\ focusedPersonId \in DOMAIN people
    /\ people[focusedPersonId].gender = "female"
    /\ \E c \in ConnsOf(connections, "spouse") :
         /\ connections[c].toId = focusedPersonId
         /\ people[connections[c].fromId].gender = "male"
    /\ \E c \in ConnsOf(connections, "spouse") :
         /\ connections[c].fromId # getSpouse(focusedPersonId)
         /\ people[connections[c].fromId].gender = "male"
         /\ people[connections[c].toId].gender = "female"
         /\ getSpouse(connections[c].fromId) = connections[c].toId

\* C14 as stated: a spouse connection is emitted only when both members of
\* the couple are newly placed by the step; and for every spouse connection
\* the nodes of fromId and toId have the same y, the from point is the right
\* edge of the left node (x + width/2) and the to point the left edge of the
\* right node (x - width/2), both at that y.
C14_SpouseConnection ==
    /\ [][\A c \in (Len(connections) + 1)..Len(connections') :
            connections'[c].type = "spouse" =>
              {connections'[c].fromId, connections'[c].toId}
                \subseteq NewIds]_vars
    /\ [](\A c \in ConnsOf(connections, "spouse") :
            \E i \in NodesOf(nodes, connections[c].fromId),
               j \in NodesOf(nodes, connections[c].toId) :
              /\ nodes[i].y = nodes[j].y
              /\ connections[c].from = [x |-> RightEdge(nodes[i]),
                                        y |-> nodes[i].y]
              /\ connections[c].to = [x |-> LeftEdge(nodes[j]),
                                      y |-> nodes[j].y])

\* The parent-child connections of conns made by descendant placement: they
\* start at a node of generation 0 or more.
DescendantConns(ns, conns) ==
    {c \in ConnsOf(conns, "parent-child") :
        \E i \in NodesOf(ns, conns[c].fromId) : ns[i].generation >= 0}

\* C15 as stated: for every parent-child connection made by descendant
\* placement, the node of toId has y = (y of the node of fromId) +
\* VERTICAL_GAP + NODE_HEIGHT and generation = (generation of the parent
\* node) + 1.
C15_ChildrenBelow ==
    \A c \in DescendantConns(nodes, connections) :
      \E i \in NodesOf(nodes, connections[c].fromId),
         j \in NodesOf(nodes, connections[c].toId) :
        /\ nodes[j].y = nodes[i].y + VERTICAL_GAP + NODE_HEIGHT
        /\ nodes[j].generation = nodes[i].generation + 1

\* The nodes placed beside the node of id as its couple: those joined to it
\* by a spouse connection.
PartnersOf(ns, conns, id) ==
    {j \in 1..Len(ns) :
        \E c \in ConnsOf(conns, "spouse") :
          {conns[c].fromId, conns[c].toId} = {id, ns[j].id} /\ ns[j].id # id}

\* Twice the centre x of the couple of node i: the middle of the extent of
\* the node and its partners, the node's own x when it has no partner.
TwiceCoupleCentre(ns, conns, i) ==
    SetMin({LeftEdge(ns[k]) : k \in {i} \cup PartnersOf(ns, conns, ns[i].id)})
      + SetMax({RightEdge(ns[k]) :
                  k \in {i} \cup PartnersOf(ns, conns, ns[i].id)})

\* C16 as stated: every parent-child connection made by descendant placement
\* runs from the bottom-centre of the parent's own node (x of the node, y +
\* NODE_HEIGHT/2) to the top-centre of the child's own node (x of the node,
\* y - NODE_HEIGHT/2).
C16_FromParentNode ==
    \A c \in DescendantConns(nodes, connections) :
      \E i \in NodesOf(nodes, connections[c].fromId),
         j \in NodesOf(nodes, connections[c].toId) :
        /\ connections[c].from =
             [x |-> nodes[i].x, y |-> nodes[i].y + Half(NODE_HEIGHT)]
        /\ connections[c].to =
             [x |-> nodes[j].x, y |-> nodes[j].y - Half(NODE_HEIGHT)]

\* C16: a call of positionDescendants for a person that the same step has
\* just placed is given the centre of that person's couple (the middle of
\* the person's node and the spouse placed beside it; the person's own x
\* only when no spouse was placed beside it) and the person's row; every
\* parent-child connection made by descendant placement runs from that
\* centre, NODE_HEIGHT/2 below that row, to the x of the child's own node,
\* NODE_HEIGHT/2 above the child row, which is the top-centre of the child's
\* node whenever the step has just placed the child.
C16_FromCoupleCentre ==
    /\ [][Len(stack') = Len(stack) + 1 =>
            \A i \in NodesOf(nodes', stack'[Len(stack')].parentPerson) :
              nodes'[i].id \in NewIds =>
                /\ 2 * stack'[Len(stack')].parentCenterX =
                     TwiceCoupleCentre(nodes', connections', i)
                /\ stack'[Len(stack')].parentY = nodes'[i].y]_vars
    /\ [][pc = "descendants" /\ Len(connections') > Len(connections)
            /\ connections'[Len(connections')].type = "parent-child" =>
            \E c \in {connections'[Len(connections')]} :
              /\ c.fromId = Top.parentPerson
              /\ c.from = [x |-> Top.parentCenterX,
                           y |-> Top.parentY + Half(NODE_HEIGHT)]
              /\ c.to.y = Top.parentY + VERTICAL_GAP + Half(NODE_HEIGHT)
              /\ \A j \in NodesOf(nodes', c.toId) :
                   /\ c.to.x = nodes'[j].x
                   /\ c.toId \in NewIds =>
                        c.to.y = nodes'[j].y - Half(NODE_HEIGHT)]_vars

\* A finished layout with a connection that starts at the centre of the
\* parent's couple and not at the parent's node, from the focused person and
\* from a person of a later generation.
C16_Witness ==
    /\ Done
    /\ \A g \in {0, 1} :
         \E c \in DescendantConns(nodes, connections) :
           \E i \in NodesOf(nodes, connections[c].fromId) :
             /\ IF g = 0 THEN nodes[i].generation = 0
                         ELSE nodes[i].generation >= 1
             /\ PartnersOf(nodes, connections, nodes[i].id) # {}
             /\ connections[c].from.x # nodes[i].x
             /\ 2 * connections[c].from.x =
                  TwiceCoupleCentre(nodes, connections, i)

\* The slice of the k-th child of the call f, as the claim lays the slices
\* out: the first starts total/2 left of the parent centre, each next one
\* HORIZONTAL_GAP right of the end of the one before.
RECURSIVE SliceLeft(_, _)
SliceLeft(f, k) ==
    IF k = 1
    THEN f.parentCenterX
           - Half(SumSeq(f.adjustedWidths)
                    + (Len(f.children) - 1) * HORIZONTAL_GAP)
    ELSE SliceLeft(f, k - 1) + f.adjustedWidths[k - 1] + HORIZONTAL_GAP

SliceRight(f, k) == SliceLeft(f, k) + f.adjustedWidths[k]

\* The place of id in the sequence s.
IndexOf(s, id) == CHOOSE k \in 1..Len(s) : s[k] = id

\* The calls of positionDescendants that are inside their loop.
Looping == {k \in 1..Len(stack) : stack[k].entered}

\* The slices of every call inside its loop: the children are children of
\* the parent in childrenIds order, the running x is the left end of the
\* slice of the child whose turn it is, and the last slice ends total/2 right
\* of the parent centre.
SlicesInOrder ==
    \A k \in Looping :
      \E f \in {stack[k]} :
        /\ f.children # <<>> /\ Len(f.adjustedWidths) = Len(f.children)
        /\ \A a \in 1..Len(f.children) :
             Includes(people[f.parentPerson].childrenIds, f.children[a])
        /\ \A a, b \in 1..Len(f.children) :
             a < b => IndexOf(people[f.parentPerson].childrenIds, f.children[a])
                        < IndexOf(people[f.parentPerson].childrenIds,
                                  f.children[b])
        /\ f.i <= Len(f.children) => f.currentX = SliceLeft(f, f.i)
        /\ SliceRight(f, Len(f.children)) =
             f.parentCenterX
               + Half(SumSeq(f.adjustedWidths)
                        + (Len(f.children) - 1) * HORIZONTAL_GAP)

\* C17 as stated: in positionDescendants the children that are not yet
\* positioned get slices left to right in childrenIds order, HORIZONTAL_GAP
\* apart, the span of the slices is centred on the parent couple's centre x,
\* and each child couple is centred within its own slice.
C17_SlicesCentred ==
    /\ [](pc = "descendants" => SlicesInOrder)
    /\ [][pc = "descendants" /\ Len(stack') = Len(stack) + 1 =>
            \A j \in NodesOf(nodes', Top.children[Top.i]) :
              TwiceCoupleCentre(nodes', connections', j) =
                SliceLeft(Top, Top.i) + SliceRight(Top, Top.i)]_vars

\* C17: the slices as stated; each child that is still not positioned when
\* its turn comes is centred within its own slice, together with the spouse
\* placed beside it.
C17_SlicesCentredWhenPlaced ==
    /\ [](pc = "descendants" => SlicesInOrder)
    /\ [][pc = "descendants" /\ Len(stack') = Len(stack) + 1 =>
            \A j \in NodesOf(nodes', Top.children[Top.i]) :
              nodes'[j].id \in NewIds =>
                /\ NewIds \subseteq
                     {nodes'[j].id} \cup
                       {nodes'[p].id :
                          p \in PartnersOf(nodes', connections', nodes'[j].id)}
                /\ TwiceCoupleCentre(nodes', connections', j) =
                     SliceLeft(Top, Top.i) + SliceRight(Top, Top.i)]_vars

\* A call in the turn of its second child, which has just been placed with a
\* spouse in the middle of its slice, the slice being wider than the couple.
C17_Witness ==
    /\ pc = "descendants" /\ Len(stack) >= 2
    /\ \E f \in {stack[Len(stack) - 1]} :
         /\ f.entered /\ f.i = 2
         /\ \E j \in NodesOf(nodes, f.children[2]) :
              /\ j = Len(nodes) \/ j = Len(nodes) - 1
              /\ PartnersOf(nodes, connections, nodes[j].id) # {}
              /\ TwiceCoupleCentre(nodes, connections, j) =
                   SliceLeft(f, 2) + SliceRight(f, 2)
              /\ f.adjustedWidths[2] >
                   calculateCoupleWidth(f.children[2], getSpouse(f.children[2]))

\* The extent of the node n lies inside the slice of the child whose turn it
\* is in the call f.
InSlice(n, f) ==
    /\ SliceLeft(f, f.i) <= LeftEdge(n)
    /\ RightEdge(n) <= SliceRight(f, f.i)

\* The slices of distinct children of every call inside its loop are
\* disjoint.
SlicesDisjoint ==
    \A k \in Looping :
      \A a, b \in 1..Len(stack[k].children) :
        a < b => SliceRight(stack[k], a) < SliceLeft(stack[k], b)

\* C18: every node placed while one child of a parent is laid out (the
\* child, its spouse, every descendant placed in the child's recursion) has
\* its extent [x - width/2, x + width/2] inside the slice reserved for that
\* child, and the slices of distinct children of the same parent are
\* disjoint.
C18_InsideSlice ==
    /\ [](pc = "descendants" => SlicesDisjoint)
    /\ [][pc = "descendants" =>
            \A j \in (Len(nodes) + 1)..Len(nodes') :
              \A k \in Looping : InSlice(nodes'[j], stack[k])]_vars

\* A node of the second generation has just been placed while the calls for
\* its parent and for its grandparent are inside their loops, one of them in
\* the turn of a later child than the first.
C18_Witness ==
    /\ pc = "descendants" /\ Len(stack) >= 3 /\ ~Top.entered
    /\ nodes[Len(nodes)].generation = 2
    /\ nodes[Len(nodes)].id = Top.parentPerson
    /\ \A k \in 1..(Len(stack) - 1) :
         stack[k].entered /\ InSlice(nodes[Len(nodes)], stack[k])
    /\ \E k \in 1..(Len(stack) - 1) : stack[k].i >= 2

TopEdge(n) == n.y - Half(n.height)

BottomEdge(n) == n.y + Half(n.height)

\* C19: the returned bounds are the union of the node rectangles: minX and
\* maxX are the least x - width/2 and the greatest x + width/2 over the
\* nodes, minY and maxY the least y - height/2 and the greatest y +
\* height/2, width = maxX - minX and height = maxY - minY, so every node
\* rectangle lies inside the bounds; with no nodes all six values are 0.
C19_Bounds ==
    Done =>
      \E b \in {Returned.bounds} :
      \E I \in {1..Len(Returned.nodes)} :
        /\ b.width = b.maxX - b.minX /\ b.height = b.maxY - b.minY
        /\ I = {} => /\ b.minX = 0 /\ b.maxX = 0 /\ b.minY = 0 /\ b.maxY = 0
                     /\ b.width = 0 /\ b.height = 0
        /\ \A i \in I :
             /\ b.minX <= LeftEdge(Returned.nodes[i])
             /\ RightEdge(Returned.nodes[i]) <= b.maxX
             /\ b.minY <= TopEdge(Returned.nodes[i])
             /\ BottomEdge(Returned.nodes[i]) <= b.maxY
        /\ I # {} =>
             /\ \E i \in I : b.minX = LeftEdge(Returned.nodes[i])
             /\ \E i \in I : b.maxX = RightEdge(Returned.nodes[i])
             /\ \E i \in I : b.minY = TopEdge(Returned.nodes[i])
             /\ \E i \in I : b.maxY = BottomEdge(Returned.nodes[i])

\* A returned layout of three rows whose four sides are set by nodes other
\* than the focused one.
C19_Witness ==
    /\ Done /\ Len(Returned.nodes) >= 4
    /\ Returned.bounds.height = 2 * VERTICAL_GAP + 3 * NODE_HEIGHT
    /\ Returned.bounds.minY < TopEdge(Returned.focusedNode[1])
    /\ Returned.bounds.maxY > BottomEdge(Returned.focusedNode[1])
    /\ Returned.bounds.minX < LeftEdge(Returned.focusedNode[1])
    /\ Returned.bounds.maxX > RightEdge(Returned.focusedNode[1])
    /\ Returned.bounds.width > MAX_NODE_WIDTH

\* C20 as stated: the focused person's own node is at the centre (x = 0,
\* y = 0) for every graph that holds the focused id, whether or not the
\* focused person has a spouse.
C20_FocusedNodeAtOrigin ==
    \A i \in NodesOf(nodes, focusedPersonId) :
      nodes[i].x = 0 /\ nodes[i].y = 0

(***************************************************************************)
(* computeLayout called again and again                                    *)
(*                                                                         *)
(* The caller keeps what each call returned (log) and calls again; a call  *)
(* starts with the locals of lines 133-135 created anew.                   *)
(***************************************************************************)
MaxLog == 2

\* A parent (1) of two children (2 and 3) in which spouseId and childrenIds
\* entries may name person 4, which the graph does not hold.
DanglingGraphs ==
    { [id \in {1, 2, 3} |->
         CASE id = 1 -> Person(1, "male", s1, k1)
           [] id = 2 -> Person(2, "female", s2, k2)
           [] id = 3 -> Person(3, "male", Null, <<>>)]
      : s1 \in {Null, 4}, k1 \in {<<2, 3>>, <<4, 2, 3>>},
        s2 \in {Null, 4}, k2 \in {<<>>, <<4>>} }

\* A lineage of MaxChain generations, every person married.
LongChain ==
    CHOOSE g \in ChainGraphs :
      /\ Cardinality(DOMAIN g) = 2 * MaxChain
      /\ \A p \in DOMAIN g : ~Includes(g[p].childrenIds, 1)

\* A lineage of five unmarried persons with short names, of whom the last
\* (generation 4 below person 1) has four children.
WideLeaf ==
    [id \in 1..9 |->
        [Person(id, "male", Null,
                IF id < 5 THEN <<id + 1>>
                ELSE IF id = 5 THEN <<6, 7, 8, 9>> ELSE <<>>)
           EXCEPT !.name = Names[1]]]

\* The calls of a caller: the dangling graphs focused on the parent or the
\* first child, a lineage focused on its first and its last generation, a
\* lineage whose last shown person has four children, and a focus that the
\* graph lacks.
PureInputs ==
    {<<g, f>> : g \in DanglingGraphs, f \in {1, 2}}
      \cup {<<LongChain, 1>>, <<LongChain, MaxChain>>, <<WideLeaf, 1>>}
      \cup {<<g, 4>> : g \in {h \in DanglingGraphs :
                                h[1].spouseId = 4 /\ h[2].spouseId = 4
                                  /\ Len(h[1].childrenIds) = 3
                                  /\ h[2].childrenIds = <<4>>}}

\* Mutant of NewSet: the set of the call before is used again.
KeptSet(old) == old

\* new Set<string>(): an empty set, whatever an earlier call has left.
NewSet(old) == {}

\* computeLayout(focusedPersonId, familyTree) is called by a caller that may
\* have called before: nodes, connections and positioned are created.
PureCall ==
    /\ pc = "idle"
    /\ \E input \in PureInputs :
         /\ people' = input[1]
         /\ focusedPersonId' = input[2]
    /\ nodes' = <<>>
    /\ connections' = <<>>
    /\ positioned' = NewSet(positioned)
    /\ pc' = "start"
    /\ UNCHANGED outside
    /\ UNCHANGED <<stack, anc, result>>

\* The caller takes the result; what the call has left in memory stays as
\* it is until it is collected.
Keep ==
    /\ pc = "done"
    /\ Cardinality(log \cup {<<people, focusedPersonId, Returned>>}) <= MaxLog
    /\ log' = log \cup {<<people, focusedPersonId, Returned>>}
    /\ result' = <<>>
    /\ pc' = "idle"
    /\ UNCHANGED <<navVars, storeVars, tierVars>>
    /\ UNCHANGED <<people, focusedPersonId, nodes, connections, positioned,
                   stack, anc>>

PureInit ==
    /\ LayoutIdle
    /\ focusedPersonId = Null
    /\ NavIdle /\ StoreIdle /\ TierIdle
    /\ log = {}

PureNext ==
    \/ PureCall
    \/ ReturnEmpty
    \/ PlaceFocused
    \/ DescDepthLimit
    \/ DescNoChildren
    \/ DescEnter
    \/ DescChild
    \/ DescReturn
    \/ CallAncestors
    \/ AncDepthLimit
    \/ AncNoParents
    \/ AncPlace
    \/ Finish
    \/ Keep

PureSpec == PureInit /\ [][PureNext]_vars

\* The graph without its dangling references: a spouseId that names nobody
\* is unset, childrenIds entries that name nobody are removed.
Strip(g) ==
    [id \in DOMAIN g |->
       [g[id] EXCEPT
          !.spouseId = IF g[id].spouseId \in DOMAIN g THEN g[id].spouseId
                       ELSE Null,
          !.childrenIds = FilterSeq(g[id].childrenIds, DOMAIN g)]]

\* The calls that have returned: those the caller has kept, and the one
\* that has just returned.
Calls ==
    log \cup (IF Done THEN {<<people, focusedPersonId, Returned>>} ELSE {})

\* C21: dangling references are treated like absent relationships: for a
\* graph G in which some spouseId or childrenIds entry names an id that is
\* not a key of G, computeLayout returns the same nodes (positions, widths,
\* generations, flags), connections and bounds as on G without its dangling
\* references.
C21_DanglingIgnored ==
    \A a, b \in Calls :
      (a[1] # b[1] /\ b[1] = Strip(a[1]) /\ a[2] = b[2]) => a[3] = b[3]

\* Both have returned: the call on a graph in which the focused person names
\* an absent spouse and an absent first child, and a child names an absent
\* spouse and an absent child, and the call on the graph without these
\* references; three nodes are placed.
C21_Witness ==
    /\ Done /\ Len(Returned.nodes) = 3
    /\ \E a \in log :
         /\ a[2] = focusedPersonId /\ a[1] # people /\ people = Strip(a[1])
         /\ a[1][a[2]].spouseId \notin DOMAIN a[1] \cup {Null}
         /\ a[1][a[2]].childrenIds[1] \notin DOMAIN a[1]
         /\ \E c \in DOMAIN a[1] :
              /\ Includes(a[1][a[2]].childrenIds, c)
              /\ a[1][c].spouseId \notin DOMAIN a[1] \cup {Null}
              /\ a[1][c].childrenIds # <<>>

MaxUuid == 6

\* req.user: the users of the requests.
Users ==
    { [id |-> 1, tier |-> "silver"], [id |-> 1, tier |-> "free"],
      [id |-> 2, tier |-> "gold"] }

\* req.body: name and gender of the new person.
Bodies == { [name |-> Names[1], gender |-> "male"] }

\* A field that req.body does not carry.
Undefined == "undefined"

\* req.body of updatePerson.
Updates ==
    { [name |-> Undefined, gender |-> Undefined],
      [name |-> Names[2], gender |-> "female"] }

\* The number of persons that carry updated fields at a time.
MaxUpdated == 1

\* The persons of ps whose name or gender is not the one they were added with.
UpdatedIn(ps) ==
    {id \in DOMAIN ps : \A body \in Bodies :
                           ps[id].name # body.name \/ ps[id].gender # body.gender}

canEditTree(user, t) ==
    IF user.id = Null THEN FALSE
    ELSE IF user.tier = "admin" THEN TRUE
    ELSE IF user.tier = "free" THEN FALSE
    ELSE t.ownerId = user.id

NewPerson(id, body, spouseId, childrenIds) ==
    [id |-> id, name |-> body.name, gender |-> body.gender,
     spouseId |-> spouseId, childrenIds |-> childrenIds]

\* people.set(id, p) and people.delete(id).
MapSet(ps, id, p) == [k \in DOMAIN ps \cup {id} |-> IF k = id THEN p ELSE ps[k]]
MapDelete(ps, id) == [k \in DOMAIN ps \ {id} |-> ps[k]]

\* The loop of the pre-save hook over the entries of people, from the i-th
\* key on: a missing spouse is an error, a one-sided link is made two-sided.
RECURSIVE preSaveLoop(_, _, _)
preSaveLoop(ps, keys, i) ==
    IF i > Len(keys) THEN [ok |-> TRUE, people |-> ps]
    ELSE LET id == keys[i]
             spouseId == ps[id].spouseId
         IN  IF spouseId = Null THEN preSaveLoop(ps, keys, i + 1)
             ELSE IF spouseId \notin DOMAIN ps
                  THEN [ok |-> FALSE, people |-> ps]
                  ELSE preSaveLoop(
                         IF ps[spouseId].spouseId # id
                         THEN [ps EXCEPT ![spouseId].spouseId = id] ELSE ps,
                         keys, i + 1)

\* FamilyTreeSchema.pre('save'): the document that is written, or an error.
preSave(t) ==
    IF t.rootId # Null /\ DOMAIN t.people # {} /\ t.rootId \notin DOMAIN t.people
    THEN [ok |-> FALSE, tree |-> t]
    ELSE LET r == preSaveLoop(t.people, Ascending(DOMAIN t.people), 1)
         IN  [ok |-> r.ok, tree |-> [t EXCEPT !.people = r.people]]

\* await tree.save(): an error of the hook leaves the stored document as
\* it was (the handler answers 500).
Save(t) == \E r \in {preSave(t)} : tree' = IF r.ok THEN r.tree ELSE tree

\* What a handler of the store leaves alone.
StoreFrame ==
    UNCHANGED <<people, focusedPersonId, nodes, connections, positioned,
                stack, anc, pc, result, navVars, tierVars, log>>

\* Mutant of mayLink: the new parent is linked to the existing parent
\* whether or not that parent has a spouse.
mayLinkAlways(existingParent) == TRUE

\* addParent: "Only link as spouse if the existing parent doesn't have one".
mayLink(existingParent) == existingParent.spouseId = Null

\* Mutant of removeChild: the deleted person stays in the lists.
removeChildNever(childrenIds, personId) == childrenIds

\* deletePerson: p.childrenIds.filter((cid) => cid !== personId).
removeChild(childrenIds, personId) ==
    SelectSeq(childrenIds, LAMBDA cid : cid # personId)

\* The persons of ps that list personId as a child, in Map order.
existingParentsOf(ps, personId) ==
    SelectSeq(Ascending(DOMAIN ps),
              LAMBDA id : Includes(ps[id].childrenIds, personId))

addFirstPerson ==
    /\ uuid < MaxUuid
    /\ \E user \in Users, personData \in Bodies :
         /\ canEditTree(user, tree)
         /\ DOMAIN tree.people = {}
         /\ LET personId == uuid + 1
                person == NewPerson(personId, personData, Null, <<>>)
            IN  Save([tree EXCEPT !.people = MapSet(@, personId, person),
                                  !.rootId = personId])
    /\ uuid' = uuid + 1
    /\ StoreFrame

addSpouse ==
    /\ uuid < MaxUuid
    /\ \E user \in Users, spouseData \in Bodies, personId \in 1..MaxUuid :
         /\ canEditTree(user, tree)
         /\ personId \in DOMAIN tree.people
         /\ tree.people[personId].spouseId = Null
         /\ LET person == tree.people[personId]
                spouseId == uuid + 1
                spouse == NewPerson(spouseId, spouseData, personId,
                                    person.childrenIds)
            IN  Save([tree EXCEPT !.people =
                        MapSet(MapSet(@, personId,
                                      [person EXCEPT !.spouseId = spouseId]),
                               spouseId, spouse)])
    /\ uuid' = uuid + 1
    /\ StoreFrame

addParent ==
    /\ uuid < MaxUuid
    /\ \E user \in Users, parentData \in Bodies, personId \in 1..MaxUuid :
         /\ canEditTree(user, tree)
         /\ personId \in DOMAIN tree.people
         /\ \E existingParents \in {existingParentsOf(tree.people, personId)} :
              /\ Len(existingParents) < 2
              /\ LET parentId == uuid + 1
                     link == /\ Len(existingParents) = 1
                             /\ mayLink(tree.people[existingParents[1]])
                     parent == NewPerson(parentId, parentData,
                                   IF link THEN existingParents[1] ELSE Null,
                                   <<personId>>)
                     linked == IF link
                               THEN [tree.people EXCEPT
                                       ![existingParents[1]].spouseId = parentId]
                               ELSE tree.people
                 IN  Save([tree EXCEPT !.people =
                                          MapSet(linked, parentId, parent)])
    /\ uuid' = uuid + 1
    /\ StoreFrame

addChild ==
    /\ uuid < MaxUuid
    /\ \E user \in Users, childData \in Bodies, personId \in 1..MaxUuid :
         /\ canEditTree(user, tree)
         /\ personId \in DOMAIN tree.people
         /\ LET childId == uuid + 1
                child == NewPerson(childId, childData, Null, <<>>)
                parent == tree.people[personId]
                pushed == [tree.people EXCEPT
                             ![personId].childrenIds = Append(@, childId)]
                shared == IF /\ parent.spouseId # Null
                             /\ parent.spouseId \in DOMAIN pushed
                          THEN [pushed EXCEPT ![parent.spouseId].childrenIds =
                                                 Append(@, childId)]
                          ELSE pushed
            IN  Save([tree EXCEPT !.people = MapSet(shared, childId, child)])
    /\ uuid' = uuid + 1
    /\ StoreFrame

updatePerson ==
    /\ \E user \in Users, updates \in Updates, personId \in 1..MaxUuid :
         /\ canEditTree(user, tree)
         /\ personId \in DOMAIN tree.people
         /\ LET person == tree.people[personId]
                named == IF updates.name # Undefined
                         THEN [person EXCEPT !.name = updates.name] ELSE person
                updated == IF updates.gender # Undefined
                           THEN [named EXCEPT !.gender = updates.gender]
                           ELSE named
            IN  /\ Cardinality(UpdatedIn(MapSet(tree.people, personId, updated)))
                     <= MaxUpdated
                /\ Save([tree EXCEPT !.people = MapSet(@, personId, updated)])
    /\ uuid' = uuid
    /\ StoreFrame

deletePerson ==
    /\ \E user \in Users, personId \in 1..MaxUuid :
         /\ canEditTree(user, tree)
         /\ personId \in DOMAIN tree.people
         /\ ~ (tree.rootId = personId /\ Cardinality(DOMAIN tree.people) = 1)
         /\ LET person == tree.people[personId]
                unlinked == IF /\ person.spouseId # Null
                               /\ person.spouseId \in DOMAIN tree.people
                            THEN [tree.people EXCEPT
                                    ![person.spouseId].spouseId = Null]
                            ELSE tree.people
                filtered == [id \in DOMAIN unlinked |->
                               [unlinked[id] EXCEPT !.childrenIds =
                                  removeChild(@, personId)]]
                children == filtered[personId].childrenIds
                remainingIds == Ascending(DOMAIN filtered \ {personId})
                rootId == IF tree.rootId # personId THEN tree.rootId
                          ELSE IF person.spouseId # Null THEN person.spouseId
                          ELSE IF Len(children) > 0 THEN children[1]
                          ELSE IF Len(remainingIds) > 0 THEN remainingIds[1]
                          ELSE tree.rootId
            IN  Save([tree EXCEPT !.people = MapDelete(filtered, personId),
                                  !.rootId = rootId])
    /\ uuid' = uuid
    /\ StoreFrame

\* The store after createTree: an empty tree, or a tree with its root
\* person, owned by user 1.
StoreInit ==
    /\ LayoutIdle /\ focusedPersonId = Null /\ NavIdle /\ TierIdle /\ log = {}
    /\ \/ /\ tree = [ownerId |-> 1, people |-> NoPeople, rootId |-> Null]
          /\ uuid = 0
       \/ \E rootPerson \in Bodies :
            /\ tree = [ownerId |-> 1,
                       people |-> MapSet(NoPeople, 1,
                                         NewPerson(1, rootPerson, Null, <<>>)),
                       rootId |-> 1]
            /\ uuid = 1

StoreNext ==
    \/ addFirstPerson \/ addSpouse \/ addParent \/ addChild
    \/ updatePerson \/ deletePerson

StoreSpec == StoreInit /\ [][StoreNext]_vars

\* The persons of the stored tree.
Stored == DOMAIN tree.people

\* C23: the store keeps spouse links symmetric: after any sequence of
\* addFirstPerson, addSpouse, addChild, addParent, updatePerson and
\* deletePerson, every person A with spouseId = B has B in the tree and
\* B.spouseId = A.
C23_SpouseSymmetric ==
    \A a \in Stored :
        LET b == tree.people[a].spouseId
        IN  b # Null => b \in Stored /\ tree.people[b].spouseId = a

\* C23 witness: a couple that addParent linked (the two do not list the same
\* children) in a tree where a person was deleted and a person was updated.
C23_Witness ==
    /\ Cardinality(Stored) < uuid
    /\ UpdatedIn(tree.people) # {}
    /\ \E a, b \in Stored :
         /\ tree.people[a].spouseId = b /\ tree.people[b].spouseId = a
         /\ tree.people[a].childrenIds # tree.people[b].childrenIds

\* Every spouseId and every childrenIds entry names a stored person.
ReferencesExist ==
    \A a \in Stored :
        /\ tree.people[a].spouseId # Null => tree.people[a].spouseId \in Stored
        /\ \A i \in 1..Len(tree.people[a].childrenIds) :
             tree.people[a].childrenIds[i] \in Stored

\* C24: deletion cleans up relationships: after a deletePerson(X) no
\* remaining person has spouseId = X or lists X in childrenIds; in every
\* state every spouseId and childrenIds entry names an existing person, and
\* rootId names an existing person whenever the tree has a person.
C24_DeletionCleansUp ==
    /\ [](ReferencesExist /\ (Stored # {} => tree.rootId \in Stored))
    /\ [][\A X \in Stored \ DOMAIN tree'.people :
            \A a \in DOMAIN tree'.people :
                /\ tree'.people[a].spouseId # X
                /\ ~ Includes(tree'.people[a].childrenIds, X)]_vars

\* C24 witness: the first root was deleted and another person took its
\* place, and the remaining persons still have a couple and a child list.
C24_Witness ==
    /\ 1 \notin Stored /\ uuid >= 4
    /\ tree.rootId \in Stored
    /\ \E a \in Stored : tree.people[a].spouseId # Null
    /\ \E a \in Stored : tree.people[a].childrenIds # <<>>
    /\ \E a \in Stored :
         tree.people[a].spouseId = Null /\ tree.people[a].childrenIds = <<>>

\* C27: a person never has more than two parents: no person id appears in
\* the childrenIds of more than two persons.
C27_AtMostTwoParents ==
    \A c \in Stored : Len(existingParentsOf(tree.people, c)) <= 2

\* The width of the row of the children of personId that exist and are not
\* visited: their subtree widths one level deeper and the gaps between them.
ChildrenRowWidth(personId, maxDepth, currentDepth, visited) ==
    LET spouse == getSpouse(personId)
        seen == visited \cup {personId}
                  \cup (IF spouse # Null THEN {spouse} ELSE {})
        kids == FilterSeq(people[personId].childrenIds, DOMAIN people \ seen)
    IN  IF kids = <<>> THEN 0
        ELSE SumSeq([i \in 1..Len(kids) |->
                        calculateSubtreeWidth(kids[i], maxDepth,
                                              currentDepth + 1, seen)])
               + (Len(kids) - 1) * HORIZONTAL_GAP

\* The arguments the width is examined for: every person of the graph and
\* an absent one, every depth limit a call can be given, every depth up to
\* one past the limit, nothing or one person visited.
WidthArgs ==
    { <<p, maxDepth, currentDepth, visited>> :
        p \in DOMAIN people \cup {SetMax(DOMAIN people) + 1},
        maxDepth \in 0..(MAX_LAYERS_DOWN - 1),
        currentDepth \in 0..MAX_LAYERS_DOWN,
        visited \in {{}} \cup {{q} : q \in DOMAIN people} }

\* The first state of the first call: the graph is loaded, nothing is placed.
WidthsExamined == pc = "start" /\ log = {} /\ people # NoPeople

\* The floor of positionDescendants leaves every child's width as it is:
\* the slices a call reserves are the subtree widths themselves.
FloorNeverActs ==
    [][(pc = "descendants" /\ stack # <<>> /\ ~Top.entered
          /\ stack' # <<>> /\ Len(stack') = Len(stack)
          /\ stack'[Len(stack)].entered)
       => \A i \in 1..Len(stack'[Len(stack)].children) :
            stack'[Len(stack)].adjustedWidths[i] =
              calculateSubtreeWidth(stack'[Len(stack)].children[i],
                                    MAX_LAYERS_DOWN - Top.depth - 1, 0,
                                    positioned)]_vars

\* C25 as stated: calculateSubtreeWidth returns 0 when the depth limit is
\* exceeded or the person is visited; otherwise, for a present person, it
\* returns max(coupleWidth, sum of the children's subtree widths plus the
\* gaps), which is at least the couple's footprint, so the floor of
\* positionDescendants never changes a child's width.
C25_MaxOfCoupleAndChildren ==
    /\ [](WidthsExamined =>
            \A a \in WidthArgs :
              LET w == calculateSubtreeWidth(a[1], a[2], a[3], a[4])
              IN  IF a[3] > a[2] \/ a[1] \in a[4] THEN w = 0
                  ELSE a[1] \in DOMAIN people =>
                         /\ w = Max(calculateCoupleWidth(a[1], getSpouse(a[1])),
                                    ChildrenRowWidth(a[1], a[2], a[3], a[4]))
                         /\ w >= calculateCoupleWidth(a[1], getSpouse(a[1])))
    /\ FloorNeverActs

\* C25 amended: as above, except that a present person at the depth limit
\* (currentDepth = maxDepth) gets the couple width whatever children it has.
C25_CoupleWidthIsFloor ==
    /\ [](WidthsExamined =>
            \A a \in WidthArgs :
              LET w == calculateSubtreeWidth(a[1], a[2], a[3], a[4])
                  coupleWidth == calculateCoupleWidth(a[1], getSpouse(a[1]))
              IN  IF a[3] > a[2] \/ a[1] \in a[4] THEN w = 0
                  ELSE a[1] \in DOMAIN people =>
                         /\ w = IF a[3] = a[2] THEN coupleWidth
                                ELSE Max(coupleWidth,
                                         ChildrenRowWidth(a[1], a[2], a[3], a[4]))
                         /\ w >= coupleWidth)
    /\ FloorNeverActs

\* C25 witness: positionDescendants at the last shown generation has
\* reserved the slice of a child with four children of its own, and the
\* slice is the child's couple width, narrower than the gaps between four
\* children.
C25_Witness ==
    /\ pc = "descendants" /\ stack # <<>> /\ Top.entered
    /\ Top.depth = MAX_LAYERS_DOWN - 1
    /\ \E i \in 1..Len(Top.children) :
         /\ Len(people[Top.children[i]].childrenIds) = 4
         /\ Top.adjustedWidths[i] =
              calculateCoupleWidth(Top.children[i], getSpouse(Top.children[i]))
         /\ Top.adjustedWidths[i] < 3 * HORIZONTAL_GAP

\* The persons of the focused row: the focused person and the spouse
\* that getSpouse resolves for it.
FocusedCouple ==
    {focusedPersonId} \cup
      (IF getSpouse(focusedPersonId) # Null
       THEN {getSpouse(focusedPersonId)} ELSE {})

\* C29: in every result each node's y is generation * (VERTICAL_GAP +
\* NODE_HEIGHT), isChild is true exactly for generation > 0, isParent
\* exactly for generation < 0, and the nodes of generation 0 are exactly the
\* focused person and the spouse placed with it.
C29_RowsByGeneration ==
    Done =>
      /\ \A i \in 1..Len(Returned.nodes) :
           LET n == Returned.nodes[i]
           IN  /\ n.y = n.generation * (VERTICAL_GAP + NODE_HEIGHT)
               /\ n.isChild <=> n.generation > 0
               /\ n.isParent <=> n.generation < 0
      /\ Returned.nodes # <<>> =>
           { Returned.nodes[i].id :
               i \in {j \in 1..Len(Returned.nodes) :
                        Returned.nodes[j].generation = 0} } = FocusedCouple

\* C29 witness: a result with a focused couple, a parent row, a children
\* row and a grandchildren row.
C29_Witness ==
    /\ Done /\ Returned.nodes # <<>>
    /\ Cardinality(FocusedCouple) = 2
    /\ \A g \in {-1, 1, 2} :
         \E i \in 1..Len(Returned.nodes) : Returned.nodes[i].generation = g
    /\ Cardinality({i \in 1..Len(Returned.nodes) :
                      Returned.nodes[i].generation = 0}) = 2

(***************************************************************************)
(* The navigation history (the hook useNavigation).                        *)
(*                                                                         *)
(* history and historyIndex are the hook's React state, focusedPersonId    *)
(* the value it derives from them at every render, now the clock that      *)
(* Date.now() reads.  A call runs against the render that follows the call *)
(* before it, so the values its closure holds (historyIndex, history) and  *)
(* the values its updaters receive (prev) are both the current state.      *)
(* Index i of the source is position i + 1 of the sequence.                *)
(***************************************************************************)

\* The entries a history holds at most, and the last reading of the clock.
MaxHistory == 4
MaxNow == 1

\* The persons navigated to.
NavIds == 1..3

NavigationEntry(personId, timestamp) ==
    [personId |-> personId, timestamp |-> timestamp]

\* prev.slice(0, historyIndex + 1)
SliceTo(prev, index) == SubSeq(prev, 1, Min(Max(index + 1, 0), Len(prev)))

\* history[index]?.personId || null
PersonAt(h, index) ==
    IF index + 1 \in DOMAIN h THEN h[index + 1].personId ELSE Null

\* The updater navigateTo hands to setHistory.
navigateToHistory(prev, index, personId, timestamp) ==
    LET newHistory == SliceTo(prev, index)
    IN  IF Len(newHistory) > 0
           /\ newHistory[Len(newHistory)].personId = personId
        THEN newHistory
        ELSE Append(newHistory, NavigationEntry(personId, timestamp))

\* Mutant of navigateToIndex: the index is incremented in every case.
navigateToIndexAlways(prev, h, personId) == prev + 1

\* The updater navigateTo hands to setHistoryIndex.
navigateToIndex(prev, h, personId) ==
    IF PersonAt(h, prev) = personId THEN prev ELSE prev + 1

\* Mutant of canGoBack: the first entry counts as one to go back from.
canGoBackFromFirst(h, index) == index >= 0

canGoBack(h, index) == index > 0

canGoForward(h, index) == index < Len(h) - 1

\* goBack and goForward: the index they leave.
goBackIndex(h, index) == IF canGoBack(h, index) THEN index - 1 ELSE index
goForwardIndex(h, index) == IF canGoForward(h, index) THEN index + 1 ELSE index

\* What a call of the hook leaves alone.
NavFrame ==
    UNCHANGED <<people, nodes, connections, positioned, stack, anc, pc,
                result, storeVars, tierVars, log>>

\* The render after a call: the derived focus.
Render == focusedPersonId' = PersonAt(history', historyIndex')

navigateTo ==
    /\ \E personId \in NavIds, timestamp \in now..Min(now + 1, MaxNow) :
         /\ history' = navigateToHistory(history, historyIndex, personId,
                                         timestamp)
         /\ Len(history') <= MaxHistory
         /\ historyIndex' = navigateToIndex(historyIndex, history, personId)
         /\ now' = timestamp
    /\ Render
    /\ NavFrame

goBack ==
    /\ historyIndex' = goBackIndex(history, historyIndex)
    /\ UNCHANGED <<history, now>>
    /\ Render
    /\ NavFrame

goForward ==
    /\ historyIndex' = goForwardIndex(history, historyIndex)
    /\ UNCHANGED <<history, now>>
    /\ Render
    /\ NavFrame

resetNavigation ==
    /\ \E initialPersonId \in NavIds \cup {Null},
          timestamp \in now..Min(now + 1, MaxNow) :
         /\ history' = IF initialPersonId # Null
                       THEN <<NavigationEntry(initialPersonId, timestamp)>>
                       ELSE <<>>
         /\ historyIndex' = IF initialPersonId # Null THEN 0 ELSE -1
         /\ now' = timestamp
    /\ Render
    /\ NavFrame

\* useNavigation(initialPersonId): the first render.
NavInit ==
    /\ LayoutIdle /\ StoreIdle /\ TierIdle /\ log = {}
    /\ now = 0
    /\ \E initialPersonId \in NavIds \cup {Null} :
         /\ history = IF initialPersonId # Null
                      THEN <<NavigationEntry(initialPersonId, 0)>> ELSE <<>>
         /\ historyIndex = IF initialPersonId # Null THEN 0 ELSE -1
    /\ focusedPersonId = PersonAt(history, historyIndex)

NavNext == navigateTo \/ goBack \/ goForward \/ resetNavigation

NavSpec == NavInit /\ [][NavNext]_vars

\* A step is the call navigateTo(personId).
NavigatesTo(personId) ==
    /\ \E timestamp \in now..Min(now + 1, MaxNow) :
         /\ history' = navigateToHistory(history, historyIndex, personId,
                                         timestamp)
         /\ now' = timestamp
    /\ historyIndex' = navigateToIndex(historyIndex, history, personId)

\* C26: navigateTo(p) with p other than the focused person discards the
\* entries after the current index, appends p and makes it the focus, with
\* canGoForward false and the entries up to the former index unchanged;
\* navigateTo(p) with p the focused person adds no entry and leaves focus
\* and index unchanged.
C26_NavigateTo ==
    [][\A p \in NavIds :
         NavigatesTo(p) =>
           IF p # focusedPersonId
           THEN /\ Len(history') = historyIndex + 2
                /\ \A i \in 1..(historyIndex + 1) : history'[i] = history[i]
                /\ history'[Len(history')].personId = p
                /\ historyIndex' = historyIndex + 1
                /\ focusedPersonId' = p
                /\ ~ canGoForward(history', historyIndex')
           ELSE /\ Len(history') <= Len(history)
                /\ \A i \in 1..Len(history') : history'[i] = history[i]
                /\ focusedPersonId' = focusedPersonId
                /\ historyIndex' = historyIndex]_vars

\* C26 witness: navigateTo has appended, at a later reading of the clock, an
\* entry behind the first one and made it the focus; nothing lies ahead.
C26_Witness ==
    /\ Len(history) = 2 /\ historyIndex = 1
    /\ history[1].timestamp = 0 /\ history[2].timestamp = MaxNow
    /\ now = MaxNow
    /\ focusedPersonId = history[2].personId

\* The shape of the history: the index is -1 exactly for the empty history
\* and a position of the history otherwise, the focus is the person at the
\* index, and no two consecutive entries name the same person.
HistoryShape ==
    /\ historyIndex = -1 <=> history = <<>>
    /\ history # <<>> => historyIndex \in 0..(Len(history) - 1)
    /\ history # <<>> => focusedPersonId = history[historyIndex + 1].personId
    /\ \A i \in 1..(Len(history) - 1) :
         history[i].personId # history[i + 1].personId
    /\ historyIndex = 0 => goBackIndex(history, historyIndex) = historyIndex
    /\ historyIndex = Len(history) - 1 =>
         goForwardIndex(history, historyIndex) = historyIndex

\* The focus after goBack followed by goForward.
FocusAfterBackAndForward ==
    PersonAt(history,
             goForwardIndex(history, goBackIndex(history, historyIndex)))

\* C30 as stated: the shape of the history holds after any sequence of
\* calls, goBack at index 0 and goForward at the last index change nothing,
\* and goBack followed by goForward restores the focus.
C30_BackThenForwardRestores ==
    HistoryShape /\ FocusAfterBackAndForward = focusedPersonId

\* C30 amended: goBack followed by goForward restores the focus whenever
\* goBack can move, that is when historyIndex > 0.
C30_HistoryInvariant ==
    HistoryShape
      /\ (historyIndex > 0 => FocusAfterBackAndForward = focusedPersonId)

\* C30 witness: the first entry is the focus and entries lie ahead of it:
\* goBack has nothing to undo, goForward moves on.
C30_Witness ==
    /\ historyIndex = 0 /\ Len(history) = 3
    /\ FocusAfterBackAndForward = history[2].personId
    /\ focusedPersonId = history[1].personId

(***************************************************************************)
(* Tree creation and the tier limits (createTree, canCreateTree,           *)
(* deleteTree of authController.ts, getTreeLimit of middleware/auth).      *)
(*                                                                         *)
(* A createTree request takes two steps, as the handler awaits twice: the  *)
(* answer of canCreateTree, which counts the user's stored trees, and the  *)
(* save of the new tree.  Requests of one user and of different users      *)
(* interleave between the two.                                             *)
(***************************************************************************)

\* The requests a run has in flight or has stored the tree of.
MaxRequests == 6

Infinity == 2147483647

getTreeLimit(tier) ==
    CASE tier = "admin" -> Infinity
      [] tier = "gold" -> 5
      [] tier = "silver" -> 1
      [] tier = "free" -> 0
      [] OTHER -> 0

\* canCreateTree, given the answer of countDocuments.
canCreateTree(user, existingTrees) ==
    IF user.tier = "free" THEN FALSE
    ELSE IF user.tier = "admin" THEN TRUE
    ELSE ~ (existingTrees >= getTreeLimit(user.tier))

RECURSIVE SumOver(_, _)
SumOver(f, S) ==
    IF S = {} THEN 0
    ELSE LET id == CHOOSE id \in S : TRUE
         IN  f[id] + SumOver(f, S \ {id})

Checking == SumOver([id \in OwnerIds |-> requests[id].checking], OwnerIds)
Saving == SumOver([id \in OwnerIds |-> requests[id].saving], OwnerIds)
StoredTrees == SumOver(trees, OwnerIds)

\* What a tree request leaves alone.
TierFrame ==
    UNCHANGED <<people, focusedPersonId, nodes, connections, positioned,
                stack, anc, pc, result, navVars, storeVars, log>>

\* createTree up to its first await: an authenticated user's request.
createTreeReceive ==
    /\ Checking + Saving + StoredTrees < MaxRequests
    /\ \E user \in TierUsers \cup {[id |-> Null, tier |-> "free"]} :
         /\ user.id # Null
         /\ requests' = [requests EXCEPT ![user.id].checking = @ + 1]
    /\ UNCHANGED trees
    /\ TierFrame

\* createTree from the answer of canCreateTree to its second await: the
\* request is rejected (403, or 400 for a missing name) or goes on to save.
createTreeCheck ==
    /\ \E user \in TierUsers, name \in {"", "Family"} :
         /\ requests[user.id].checking > 0
         /\ IF canCreateTree(user, trees[user.id]) /\ name # ""
            THEN requests' = [requests EXCEPT
                                ![user.id].checking = @ - 1,
                                ![user.id].saving = @ + 1]
            ELSE requests' = [requests EXCEPT ![user.id].checking = @ - 1]
    /\ UNCHANGED trees
    /\ TierFrame

\* createTree, await tree.save(): the tree is stored.
createTreeSave ==
    /\ \E user \in TierUsers :
         /\ requests[user.id].saving > 0
         /\ requests' = [requests EXCEPT ![user.id].saving = @ - 1]
         /\ trees' = [trees EXCEPT ![user.id] = @ + 1]
    /\ TierFrame

\* deleteTree: a user who may edit a stored tree deletes it.
deleteTree ==
    /\ \E user \in TierUsers, ownerId \in OwnerIds :
         /\ canEditTree(user, [ownerId |-> ownerId])
         /\ trees[ownerId] > 0
         /\ trees' = [trees EXCEPT ![ownerId] = @ - 1]
    /\ UNCHANGED requests
    /\ TierFrame

TierInit ==
    /\ LayoutIdle /\ focusedPersonId = Null /\ NavIdle /\ StoreIdle
    /\ TierIdle /\ log = {}

TierNext ==
    createTreeReceive \/ createTreeCheck \/ createTreeSave \/ deleteTree

TierSpec == TierInit /\ [][TierNext]_vars

\* C28: the tier limits hold under any interleaving: a free user never owns
\* a tree, a silver or gold user never owns more than getTreeLimit(tier)
\* trees, also with concurrent createTree requests of one user; and a
\* rejected createTree leaves the stored trees unchanged.
C28_TierLimits ==
    /\ [](\A user \in TierUsers :
            /\ user.tier = "free" => trees[user.id] = 0
            /\ user.tier \in {"silver", "gold"} =>
                 trees[user.id] <= getTreeLimit(user.tier))
    /\ [][(Checking' < Checking /\ Saving' = Saving) => trees' = trees]_vars

=============================================================================
